---- MODULE Spec2Model ----
(***************************************************************************)
(* A model of the static-analysis rule engine of Linting-Script-: the ISP, *)
(* LSP, OCP, clean-architecture and repository-architecture detectors and  *)
(* the recursive syntax-tree walks they share.  Every detector is an       *)
(* ESLint rule: a set of per-node callbacks fed by one traversal of one    *)
(* file.  A detector's run is modelled as a sequence of callback           *)
(* invocations, one action per callback, with the node the callback        *)
(* receives drawn from a small set of node shapes.                          *)
(***************************************************************************)
EXTENDS Integers, Sequences, FiniteSets, TLC

VARIABLES
  \* how the host that owns the tree exposes a node's parent: "enumerable" (a
  \* plain property, as set by a traverser assigning node.parent; for-in meets
  \* it), "hidden" (readable but not enumerable) or "absent"
  hostParent,
  \* ISP detector: context.options[0]
  ispOptions,
  \* ISP detector: the classAnalysis Map, as its entries in insertion order
  classAnalysis,
  \* ISP detector: the inheritanceChain Map
  inheritanceChain,
  \* ISP detector: objectIdCounter
  objectIdCounter,
  \* ISP detector: the diagnostics passed to context.report, in order
  ispReports,
  \* ISP detector: "walk" while nodes are delivered, "done" after Program:exit,
  \* "crashed" when a callback threw, "hung" when a callback loops for ever
  ispPc,
  \* ISP detector: <<callee>> when the traversal delivers the callee of a call
  \* next, <<>> otherwise
  ispPending,
  \* ISP detector: nodes delivered so far
  ispEvents,
  \* ISP detector, history: for each declared name, the number of methods its
  \* latest declaration declares and how many of them carry an excluded name
  ispDeclared,
  \* ISP detector, history: the calls object.method() delivered so far
  ispCalls,
  \* LSP detector: the classRegistry Map, as its entries in insertion order
  classRegistry,
  \* LSP detector: the diagnostics passed to context.report, in order
  lspReports,
  \* LSP detector: "walk" while nodes are delivered, "crashed" when a callback threw
  lspPc,
  \* LSP detector: <<the class declaration the traversal is inside>>, or <<>>,
  \* and the index of the member it delivers next
  lspCurrent, lspIndex,
  \* LSP detector: class declarations delivered so far
  lspClasses,
  \* the class declarations delivered to it so far, in order
  lspFile,
  \* a second instance of the LSP detector, made by another call of create for
  \* another file, while the driver runs the callbacks of the first: its
  \* registry, reports, position and file
  lspParked,
  \* OCP detector: context.options[0] and context.getFilename()
  ocpOptions, ocpFilename,
  \* OCP detector: the functionTypeHandling Map, as its entries in insertion order
  functionTypeHandling,
  \* OCP detector: the diagnostics passed to context.report, in order; each
  \* names its node by the node's position in ocpSwitches
  ocpReports,
  \* OCP detector, history: the switch statements the traversal has met
  ocpSwitches,
  \* OCP detector, position: the function declarations the traversal has
  \* entered so far, in order, and the index of the comparison of the last one
  \* it delivers next
  ocpFunctions, ocpIndex,
  \* clean-architecture detector: options.layers as Object.entries lists it,
  \* and context.getFilename()
  caLayers, caFilename,
  \* clean-architecture detector: the diagnostics passed to context.report, in
  \* order; each names its node by the node's position in caImports
  caReports,
  \* clean-architecture detector, history: the import declarations and call
  \* expressions the traversal has delivered
  caImports,
  \* getLayer applied to one path: the path and <<the layer>>
  layerPath, layerResult,
  \* repository-architecture detector: context.getFilename(), the diagnostics
  \* passed to context.report, and "walk" or "crashed" after a TypeError
  repoFilename, repoReports, repoPc,
  \* repository-architecture detector, history: the declarations delivered, and
  \* the member of the last class that the traversal delivers next (0 outside)
  repoNodes, repoIndex,
  \* DIP detector: the options, context.getFilename(), and the file system
  \* that fs.existsSync looks at
  dipOptions, dipFilename, dipFs,
  \* DIP detector: the diagnostics passed to context.report, each naming its
  \* node by the node's position in dipImports, and the nodes delivered
  dipReports, dipImports,
  \* a recursive walk applied to one method: its input and <<its result>>
  walkInput, walkResult,
  \* categorizeMethod applied to one name: the name and <<the category>>
  catName, catResult,
  \* SRP detector: the options; the diagnostics passed to context.report, each
  \* naming its node by the node's position in srpFile (and in its class body)
  srpOptions, srpReports,
  \* SRP detector, history and position: the top-level nodes delivered, and
  \* the callbacks the traversal still owes for the class body it is in
  srpFile, srpPending

ispVars == <<ispOptions, classAnalysis, inheritanceChain, objectIdCounter,
             ispReports, ispPc, ispPending, ispEvents, ispDeclared, ispCalls>>
lspVars == <<classRegistry, lspReports, lspPc, lspCurrent, lspIndex, lspClasses,
             lspFile, lspParked>>
ocpVars == <<ocpOptions, ocpFilename, functionTypeHandling, ocpReports, ocpSwitches,
             ocpFunctions, ocpIndex>>
caVars == <<caLayers, caFilename, caReports, caImports, layerPath, layerResult>>
repoVars == <<repoFilename, repoReports, repoPc, repoNodes, repoIndex>>
dipVars == <<dipOptions, dipFilename, dipFs, dipReports, dipImports>>
walkVars == <<walkInput, walkResult>>
catVars == <<catName, catResult>>
srpVars == <<srpOptions, srpReports, srpFile, srpPending>>

(***************************************************************************)
(* Bounds of the model.                                                    *)
(***************************************************************************)
\* nodes delivered to one detector before Program:exit
MaxEvents == 2
\* members in one class body
MaxMembers == 2
\* class declarations delivered to the LSP detector
MaxClasses == 2
\* switch statements in the file given to the OCP detector
MaxSwitches == 2
\* function declarations in the file given to the OCP detector
MaxFunctions == 2
\* imports and calls in the file given to the clean-architecture detector
MaxImports == 2
\* declarations in the file given to the repository-architecture detector
MaxDeclarations == 2
\* imports and calls in the file given to the DIP detector
MaxDipImports == 2
\* top-level functions and class bodies in the file given to the SRP detector
MaxSrpNodes == 2
\* call-stack frames available to a recursive walk before a RangeError
StackLimit == 12

(***************************************************************************)
(* The host.                                                               *)
(***************************************************************************)
HostParents == {"enumerable", "hidden", "absent"}
\* for (key in node) meets the parent property
hasParentLinks == hostParent = "enumerable"
\* node.parent is readable
hasParent == hostParent # "absent"

(***************************************************************************)
(* JavaScript values and string operations.                                *)
(***************************************************************************)
\* JavaScript's undefined / null, for an absent option, identifier or node
Undefined == "<undefined>"
Null == "<null>"

\* An option of a detector is <<>> when the configuration leaves it out and
\* <<v>> when it sets it to v.
\* option || d for a number: the option when truthy (set, and not 0)
OrDefault(v, d) == IF v = <<>> \/ v[1] = 0 THEN d ELSE v[1]
\* option !== false
NotFalse(v) == ~(v # <<>> /\ v[1] = FALSE)
\* option === true
IsTrue(v) == v # <<>> /\ v[1] = TRUE

\* String.prototype.includes
includes(s, k) ==
  \E i \in 1..(Len(s) - Len(k) + 1) : SubSeq(s, i, i + Len(k) - 1) = k

startsWith(s, k) == Len(k) <= Len(s) /\ SubSeq(s, 1, Len(k)) = k

endsWith(s, k) == Len(k) <= Len(s) /\ SubSeq(s, Len(s) - Len(k) + 1, Len(s)) = k

\* String.prototype.charAt, and \s for the texts of this module
charAt(text, i) == IF i >= 1 /\ i <= Len(text) THEN SubSeq(text, i, i) ELSE ""
isWhitespace(c) == c = " "

UpperChars == <<"A", "B", "C", "D", "E", "F", "G", "H", "I", "J", "K", "L", "M",
                "N", "O", "P", "Q", "R", "S", "T", "U", "V", "W", "X", "Y", "Z">>
LowerChars == <<"a", "b", "c", "d", "e", "f", "g", "h", "i", "j", "k", "l", "m",
                "n", "o", "p", "q", "r", "s", "t", "u", "v", "w", "x", "y", "z">>

isUpperChar(c) == \E i \in 1..26 : UpperChars[i] = c

lowerChar(c) ==
  IF isUpperChar(c) THEN LowerChars[CHOOSE i \in 1..26 : UpperChars[i] = c] ELSE c

\* String.prototype.toLowerCase
RECURSIVE toLowerCase(_)
toLowerCase(s) ==
  IF Len(s) = 0 THEN ""
  ELSE lowerChar(SubSeq(s, 1, 1)) \o toLowerCase(SubSeq(s, 2, Len(s)))

\* Array.prototype.some over a sequence
SeqSome(seq, P(_)) == \E i \in 1..Len(seq) : P(seq[i])

\* the indexes of a sequence, and its elements as a set
Range(seq) == {seq[i] : i \in 1..Len(seq)}

\* all sequences over S of length at most n
SeqsUpTo(S, n) == UNION {[1..k -> S] : k \in 0..n}

(***************************************************************************)
(* Syntax trees.  A method's function node and everything below it is a    *)
(* sequence of nodes; node 1 is the function node (member.value), and each *)
(* other node hangs from node `parent` under the property `key`.  Nodes    *)
(* are listed in source order, so the children of a node, in the order     *)
(* `for (key in node)` meets them, are the later nodes naming it as parent.*)
(* operator, value and name are the node's own scalar properties           *)
(* (Undefined when the node kind has no such property).                    *)
(***************************************************************************)
Node(type, parent, key, operator, value, name) ==
  [type |-> type, parent |-> parent, key |-> key,
   operator |-> operator, value |-> value, name |-> name]

Fn == Node("FunctionExpression", 0, "value", Undefined, Undefined, Undefined)
Arrow == Node("ArrowFunctionExpression", 0, "value", Undefined, Undefined, Undefined)
Block(p, key) == Node("BlockStatement", p, key, Undefined, Undefined, Undefined)
If(p) == Node("IfStatement", p, "body", Undefined, Undefined, Undefined)
Binary(p, key, op) == Node("BinaryExpression", p, key, op, Undefined, Undefined)
Logical(p, key, op) == Node("LogicalExpression", p, key, op, Undefined, Undefined)
Unary(p, key, op) == Node("UnaryExpression", p, key, op, Undefined, Undefined)
Ident(p, key, name) == Node("Identifier", p, key, Undefined, Undefined, name)
Lit(p, key, value) == Node("Literal", p, key, Undefined, value, Undefined)
Throw(p) == Node("ThrowStatement", p, "body", Undefined, Undefined, Undefined)
New(p) == Node("NewExpression", p, "argument", Undefined, Undefined, Undefined)
Return(p) == Node("ReturnStatement", p, "body", Undefined, Undefined, Undefined)
Switch(p) == Node("SwitchStatement", p, "body", Undefined, Undefined, Undefined)
SwitchCase(p) == Node("SwitchCase", p, "cases", Undefined, Undefined, Undefined)
Try(p) == Node("TryStatement", p, "body", Undefined, Undefined, Undefined)
Catch(p) == Node("CatchClause", p, "handler", Undefined, Undefined, Undefined)

\* m() {}
FnEmpty == <<Fn, Block(1, "body")>>
\* a method signature without a body (abstract or overload): value.body is null
FnNoBody == <<Fn>>
\* m(x) { if (x > 0) {} }
FnIf == <<Fn, Block(1, "body"), If(2), Binary(3, "test", ">"),
          Ident(4, "left", "x"), Lit(4, "right", "0"), Block(3, "consequent")>>
\* m(x) { if (x === null) {} }
FnGuardNull == <<Fn, Block(1, "body"), If(2), Binary(3, "test", "==="),
                 Ident(4, "left", "x"), Lit(4, "right", Null), Block(3, "consequent")>>
\* m(x) { if (x === 0) {} }
FnGuardLit == <<Fn, Block(1, "body"), If(2), Binary(3, "test", "==="),
                Ident(4, "left", "x"), Lit(4, "right", "0"), Block(3, "consequent")>>
\* m(x) { if (x === y) {} }
FnGuardId == <<Fn, Block(1, "body"), If(2), Binary(3, "test", "==="),
               Ident(4, "left", "x"), Ident(4, "right", "y"), Block(3, "consequent")>>
\* m(x) { if (typeof x === 'string') {} }
FnTypeof == <<Fn, Block(1, "body"), If(2), Binary(3, "test", "==="),
              Unary(4, "left", "typeof"), Ident(5, "argument", "x"),
              Lit(4, "right", "'string'"), Block(3, "consequent")>>
\* m(x) { if (x === null) {} if (x === 0) {} }
FnTwoGuards == <<Fn, Block(1, "body"), If(2), Binary(3, "test", "==="),
                 Ident(4, "left", "x"), Lit(4, "right", Null), Block(3, "consequent"),
                 If(2), Binary(8, "test", "==="),
                 Ident(9, "left", "x"), Lit(9, "right", "0"), Block(8, "consequent")>>
\* m() { throw new E1() }
FnThrowE1 == <<Fn, Block(1, "body"), Throw(2), New(3), Ident(4, "callee", "E1")>>
\* m() { throw new E2() }
FnThrowE2 == <<Fn, Block(1, "body"), Throw(2), New(3), Ident(4, "callee", "E2")>>
\* m() { return null }
FnReturnNull == <<Fn, Block(1, "body"), Return(2), Lit(3, "argument", Null)>>
\* m(a, b) { if (a && b) {} }
FnLogical == <<Fn, Block(1, "body"), If(2), Logical(3, "test", "&&"),
               Ident(4, "left", "a"), Ident(4, "right", "b"), Block(3, "consequent")>>
\* m() { return () => {} }
FnNested == <<Fn, Block(1, "body"), Return(2),
              Node("ArrowFunctionExpression", 3, "argument", Undefined, Undefined, Undefined),
              Block(4, "body")>>
\* m(x) { switch (x) { case 1: case 2: } }
FnSwitch == <<Fn, Block(1, "body"), Switch(2), Ident(3, "discriminant", "x"),
              SwitchCase(3), Lit(5, "test", "1"), SwitchCase(3), Lit(7, "test", "2")>>
\* m() { try {} catch (e) {} }
FnTryCatch == <<Fn, Block(1, "body"), Try(2), Block(3, "block"), Catch(3),
                Ident(5, "param", "e"), Block(5, "body")>>
\* m() { try {} finally {} }
FnTryFinally == <<Fn, Block(1, "body"), Try(2), Block(3, "block"), Block(3, "finalizer")>>

\* the method bodies the detectors are run on
Bodies == {FnEmpty, FnNoBody, FnIf, FnGuardNull, FnGuardLit, FnGuardId, FnTypeof,
           FnTwoGuards, FnThrowE1, FnThrowE2, FnReturnNull, FnLogical, FnNested,
           FnSwitch, FnTryCatch, FnTryFinally}

\* node[key] for a child property: the node hanging from n under key, or 0 (null)
Child(t, n, key) ==
  IF \E j \in 1..Len(t) : t[j].parent = n /\ t[j].key = key
  THEN CHOOSE j \in 1..Len(t) : t[j].parent = n /\ t[j].key = key /\
         \A k \in 1..Len(t) : (t[k].parent = n /\ t[k].key = key) => j <= k
  ELSE 0

\* functionNode.body
BodyOf(t) == Child(t, 1, "body")

RECURSIVE ChildrenFrom(_, _, _)
ChildrenFrom(t, n, j) ==
  IF j > Len(t) THEN <<>>
  ELSE IF t[j].parent = n THEN <<j>> \o ChildrenFrom(t, n, j + 1)
       ELSE ChildrenFrom(t, n, j + 1)

\* the object-valued properties of node n in enumeration order: its child nodes
\* in source order and, when the host has set parent links on the tree, the
\* `parent` property, which the host assigns last
Links(t, parentLinks, n) ==
  ChildrenFrom(t, n, 1) \o
  (IF parentLinks /\ t[n].parent # 0 THEN <<t[n].parent>> ELSE <<>>)

(***************************************************************************)
(* The recursive walks.  All six share one shape: test the node, perhaps   *)
(* return, then call themselves on every object-valued property of the     *)
(* node.  A walk is identified by the function that owns it.               *)
(***************************************************************************)
Walkers == {"countComplexity", "hasThrowStatements", "getReturnStatements",
            "getParameterValidations", "hasStricterTypeChecks", "getThrowStatements"}

\* hasStricterTypeChecks' test of one node
isStrictCheck(t, n) ==
  /\ t[n].type = "BinaryExpression"
  /\ \/ /\ Child(t, n, "left") # 0
        /\ t[Child(t, n, "left")].type = "UnaryExpression"
        /\ t[Child(t, n, "left")].operator = "typeof"
     \/ t[n].operator = "instanceof"

\* whether the walk returns at node n without descending
Returns(walker, t, n) ==
  CASE walker \in {"hasThrowStatements", "getThrowStatements"} ->
         t[n].type = "ThrowStatement"
    [] walker = "getReturnStatements" -> t[n].type = "ReturnStatement"
    [] walker = "hasStricterTypeChecks" -> isStrictCheck(t, n)
    [] OTHER -> FALSE

\* One call of the walk on node n with `depth` frames already on the stack, and
\* the calls it makes in turn: the nodes entered, in order, and whether the
\* stack ran out (a RangeError, which ends the walk and the callback running it).
RECURSIVE Visit(_, _, _, _, _), VisitAll(_, _, _, _, _)
Visit(walker, t, parentLinks, n, depth) ==
  IF depth >= StackLimit THEN [overflow |-> TRUE, visited |-> <<>>]
  ELSE IF Returns(walker, t, n) THEN [overflow |-> FALSE, visited |-> <<n>>]
  ELSE LET r == VisitAll(walker, t, parentLinks, Links(t, parentLinks, n), depth + 1)
       IN  [overflow |-> r.overflow, visited |-> <<n>> \o r.visited]

VisitAll(walker, t, parentLinks, ns, depth) ==
  IF ns = <<>> THEN [overflow |-> FALSE, visited |-> <<>>]
  ELSE LET h == Visit(walker, t, parentLinks, Head(ns), depth)
       IN  IF h.overflow THEN h
           ELSE LET r == VisitAll(walker, t, parentLinks, Tail(ns), depth)
                IN  [overflow |-> r.overflow, visited |-> h.visited \o r.visited]

\* the walk started on functionNode.body (a null body returns at once)
Walk(walker, t, parentLinks) ==
  IF BodyOf(t) = 0 THEN [overflow |-> FALSE, visited |-> <<>>]
  ELSE Visit(walker, t, parentLinks, BodyOf(t), 0)

\* how many of the visits are to a node of one of the types
RECURSIVE CountVisits(_, _, _)
CountVisits(t, visited, types) ==
  IF visited = <<>> THEN 0
  ELSE (IF t[Head(visited)].type \in types THEN 1 ELSE 0)
       + CountVisits(t, Tail(visited), types)

ControlTypes == {"IfStatement", "ConditionalExpression", "SwitchStatement",
                 "WhileStatement", "ForStatement", "ForInStatement",
                 "ForOfStatement", "DoWhileStatement"}
FunctionTypes == {"FunctionExpression", "ArrowFunctionExpression", "FunctionDeclaration"}

RECURSIVE CountLogical(_, _)
CountLogical(t, visited) ==
  IF visited = <<>> THEN 0
  ELSE (IF t[Head(visited)].type = "LogicalExpression" /\
           t[Head(visited)].operator \in {"&&", "||"} THEN 1 ELSE 0)
       + CountLogical(t, Tail(visited))

\* whether a walk of the method's body ends in a RangeError
walkThrows(walker, t, parentLinks) == Walk(walker, t, parentLinks).overflow

\* calculateMethodComplexity, when its walk returns
calculateMethodComplexity(t, parentLinks) ==
  LET w == Walk("countComplexity", t, parentLinks)
  IN  1 + CountVisits(t, w.visited, ControlTypes)
        + CountLogical(t, w.visited)
        + CountVisits(t, w.visited, {"TryStatement"})
        + CountVisits(t, w.visited, FunctionTypes)

(***************************************************************************)
(* LSP detector: what the walks collect from one method.                   *)
(***************************************************************************)
isParameterValidation(t, testNode) ==
  /\ t[testNode].type = "BinaryExpression"
  /\ LET left == Child(t, testNode, "left")
         right == Child(t, testNode, "right")
     IN  \/ /\ t[left].type = "Identifier"
            /\ t[right].type = "Literal"
            /\ t[right].value \in {Null, Undefined}
         \/ t[testNode].operator \in {"==", "===", "!=", "!=="}

\* the IfStatement nodes getParameterValidations collects, in order
getParameterValidations(t, parentLinks) ==
  SelectSeq(Walk("getParameterValidations", t, parentLinks).visited,
            LAMBDA n : /\ t[n].type = "IfStatement"
                       /\ Child(t, n, "test") # 0
                       /\ isParameterValidation(t, Child(t, n, "test")))

hasThrowStatements(t, parentLinks) ==
  \E n \in Range(Walk("hasThrowStatements", t, parentLinks).visited) :
     t[n].type = "ThrowStatement"

getReturnStatements(t, parentLinks) ==
  SelectSeq(Walk("getReturnStatements", t, parentLinks).visited,
            LAMBDA n : t[n].type = "ReturnStatement")

getThrowStatements(t, parentLinks) ==
  SelectSeq(Walk("getThrowStatements", t, parentLinks).visited,
            LAMBDA n : t[n].type = "ThrowStatement")

\* a validation's test.right.value is null or undefined; a right operand that
\* is no Literal has no value property, hence undefined
hasAdditionalNullChecks(t, parentLinks) ==
  \E n \in Range(getParameterValidations(t, parentLinks)) :
     /\ Child(t, n, "test") # 0
     /\ t[Child(t, n, "test")].type = "BinaryExpression"
     /\ t[Child(t, Child(t, n, "test"), "right")].value \in {Null, Undefined}

hasStricterTypeChecks(t, parentLinks) ==
  \E n \in Range(Walk("hasStricterTypeChecks", t, parentLinks).visited) :
     isStrictCheck(t, n)

canReturnNull(t, returnStatements) ==
  \E n \in Range(returnStatements) :
     /\ Child(t, n, "argument") # 0
     /\ t[Child(t, n, "argument")].type = "Literal"
     /\ t[Child(t, n, "argument")].value = Null

\* what isSameExceptionType reads of a throw statement: the type of its
\* argument and the name it compares (callee.name or name)
thrownType(t, n) ==
  LET argument == Child(t, n, "argument")
  IN  IF argument = 0 THEN [type |-> Null, name |-> Undefined]
      ELSE IF t[argument].type = "NewExpression"
      THEN [type |-> "NewExpression",
            name |-> IF Child(t, argument, "callee") # 0
                     THEN t[Child(t, argument, "callee")].name ELSE Undefined]
      ELSE [type |-> t[argument].type, name |-> t[argument].name]

isSameExceptionType(throw1, throw2) ==
  /\ throw1.type # Null /\ throw2.type # Null
  /\ \/ /\ throw1.type = "NewExpression" /\ throw2.type = "NewExpression"
        /\ throw1.name = throw2.name
     \/ /\ throw1.type = "Identifier" /\ throw2.type = "Identifier"
        /\ throw1.name = throw2.name

\* throwsNewExceptionTypes on the thrown types of the two methods
throwsNewExceptionTypes(currentThrows, baseThrows) ==
  \/ Len(currentThrows) > 0 /\ Len(baseThrows) = 0
  \/ \E i \in 1..Len(currentThrows) :
       ~\E j \in 1..Len(baseThrows) : isSameExceptionType(currentThrows[i], baseThrows[j])

LspWalkers == {"hasThrowStatements", "getReturnStatements", "getParameterValidations",
               "hasStricterTypeChecks", "getThrowStatements"}

\* everything the detector derives from one method body, computed once: whether
\* a walk of it ends in a RangeError and, when none does, what the walks collect
methodProfile(t, parentLinks) ==
  IF \E w \in LspWalkers : walkThrows(w, t, parentLinks)
  THEN [throws |-> TRUE, validations |-> 0, nullChecks |-> FALSE,
        strictChecks |-> FALSE, hasThrow |-> FALSE, returnsNull |-> FALSE,
        thrown |-> <<>>]
  ELSE [throws |-> FALSE,
        validations |-> Len(getParameterValidations(t, parentLinks)),
        nullChecks |-> hasAdditionalNullChecks(t, parentLinks),
        strictChecks |-> hasStricterTypeChecks(t, parentLinks),
        hasThrow |-> hasThrowStatements(t, parentLinks),
        returnsNull |-> canReturnNull(t, getReturnStatements(t, parentLinks)),
        thrown |-> LET throws == getThrowStatements(t, parentLinks)
                   IN  [i \in 1..Len(throws) |-> thrownType(t, throws[i])]]

profileOf == [t \in Bodies |-> [l \in BOOLEAN |-> methodProfile(t, l)]]

(***************************************************************************)
(* ISP detector: method categories.                                        *)
(***************************************************************************)
\* the keyword table of categorizeMethod, in the order Object.entries yields it
categories ==
  << [category |-> "data", keywords |->
        <<"get", "set", "read", "write", "load", "save", "fetch", "store", "find",
          "select", "insert", "update", "delete">>],
     [category |-> "validation", keywords |->
        <<"validate", "verify", "check", "confirm", "ensure", "assert", "test",
          "is", "has", "can">>],
     [category |-> "transformation", keywords |->
        <<"transform", "convert", "parse", "format", "serialize", "deserialize",
          "map", "filter", "reduce">>],
     [category |-> "communication", keywords |->
        <<"send", "receive", "notify", "emit", "broadcast", "publish", "subscribe",
          "connect", "disconnect">>],
     [category |-> "calculation", keywords |->
        <<"calculate", "compute", "process", "analyze", "sum", "count", "average",
          "min", "max">>],
     [category |-> "ui", keywords |->
        <<"render", "display", "show", "hide", "update", "refresh", "draw", "paint",
          "animate">>],
     [category |-> "lifecycle", keywords |->
        <<"init", "start", "stop", "destroy", "create", "delete", "dispose",
          "cleanup", "setup", "teardown">>],
     [category |-> "utility", keywords |->
        <<"log", "debug", "trace", "measure", "monitor", "profile", "benchmark",
          "clone", "copy">>],
     [category |-> "security", keywords |->
        <<"authenticate", "authorize", "encrypt", "decrypt", "hash", "sign",
          "verify", "sanitize">>],
     [category |-> "navigation", keywords |->
        <<"navigate", "redirect", "route", "go", "back", "forward", "next",
          "previous">>] >>

\* keywords.some(keyword => lowerName.includes(keyword))
groupMatches(group, lowerName) ==
  \E k \in 1..Len(group.keywords) : includes(lowerName, group.keywords[k])

\* the for-of loop of categorizeMethod from group i on
RECURSIVE categorizeFrom(_, _)
categorizeFrom(lowerName, i) ==
  IF i > Len(categories) THEN "general"
  ELSE IF groupMatches(categories[i], lowerName) THEN categories[i].category
       ELSE categorizeFrom(lowerName, i + 1)

\* categorizeMethod matching the name as written, not lowercased
categorizeMethodAsWritten(methodName) == categorizeFrom(methodName, 1)

categorizeMethod(methodName) == categorizeFrom(toLowerCase(methodName), 1)

(***************************************************************************)
(* ISP detector: inputs.                                                   *)
(***************************************************************************)
ClassNames == {"A", "IA"}
\* the identifiers a call or member access is made on
ObjectNames == {"A", "IA", "ia", "ia_1"}
PropertyNames == {"getA", "render"}

Member(type, keyName, valueType, body) ==
  [type |-> type, keyName |-> keyName, valueType |-> valueType, body |-> body]

\* the members a class body is made of: two methods (one of them the
\* constructor), an arrow-function property and a plain property
ClassMembers ==
  { Member("MethodDefinition", "getA", "FunctionExpression", FnEmpty),
    Member("MethodDefinition", "constructor", "FunctionExpression", FnEmpty),
    Member("PropertyDefinition", "render", "ArrowFunctionExpression",
           <<Arrow, Block(1, "body"), If(2), Binary(3, "test", ">"),
             Ident(4, "left", "x"), Lit(4, "right", "0"), Block(3, "consequent")>>),
    Member("PropertyDefinition", "count", "Literal", <<>>) }

\* the members of a TypeScript interface body
InterfaceMembers ==
  { Member("TSMethodSignature", "getA", Undefined, <<>>),
    Member("TSMethodSignature", "render", Undefined, <<>>),
    Member("TSPropertySignature", "count", Undefined, <<>>) }

\* the properties an object literal is made of: three function-valued ones
\* (one of them named toString) and a plain one
ObjectMembers ==
  { Member("Property", "getA", "FunctionExpression", FnEmpty),
    Member("Property", "render", "ArrowFunctionExpression", FnEmpty),
    Member("Property", "toString", "FunctionExpression", FnEmpty),
    Member("Property", "count", "Literal", <<>>) }

\* the object literals: property lists of length 2 to 4
ObjectBodies ==
  LET get == Member("Property", "getA", "FunctionExpression", FnEmpty)
      render == Member("Property", "render", "ArrowFunctionExpression", FnEmpty)
      str == Member("Property", "toString", "FunctionExpression", FnEmpty)
      count == Member("Property", "count", "Literal", <<>>)
  IN  { <<get, render>>, <<get, render, count>>, <<get, render, str>>,
        <<get, get, render>>, <<str, str, str>>, <<get, render, str, count>> }

\* the parent of an object literal: its type and, where it has one, the name
\* it declares (VariableDeclarator id, Property key)
ObjectParents ==
  { [type |-> "VariableDeclarator", name |-> "ia"],
    [type |-> "Property", name |-> Undefined],
    [type |-> "CallExpression", name |-> Undefined] }

ObjectNodes == [parent : ObjectParents, properties : ObjectBodies]

\* String(n) for a counter value
RECURSIVE numberToString(_)
numberToString(n) ==
  LET digits == <<"0", "1", "2", "3", "4", "5", "6", "7", "8", "9">>
  IN  IF n < 10 THEN digits[n + 1]
      ELSE numberToString(n \div 10) \o digits[(n % 10) + 1]

\* the ids generateStableObjectId can produce within the bound on events
ObjectIds ==
  {c \o "_" \o numberToString(n) : c \in {"ia", "Object"}, n \in 1..(MaxEvents + 1)}

excludePatterns == <<"constructor", "toString", "valueOf">>

\* excludePatterns.some(pattern => name.includes(pattern))
isExcluded(methodName) ==
  \E i \in 1..Len(excludePatterns) : includes(methodName, excludePatterns[i])

isInterfaceLikeNaming(name) ==
  \/ Len(name) >= 2 /\ SubSeq(name, 1, 1) = "I" /\ isUpperChar(SubSeq(name, 2, 2))
  \/ endsWith(name, "Interface")
  \/ endsWith(name, "Contract")
  \/ endsWith(name, "Protocol")
  \/ endsWith(name, "Spec")

\* The functions of the member, class and object names above are computed once.
MemberNames == {m.keyName : m \in ClassMembers \cup InterfaceMembers \cup ObjectMembers}
excludedOf == [n \in MemberNames |-> isExcluded(n)]
interfaceLikeOf == [n \in ClassNames \cup {"AnonymousClass"} |-> isInterfaceLikeNaming(n)]
categoryOf == [n \in MemberNames |-> categorizeMethod(n)]
complexityOf ==
  [m \in ClassMembers \cup ObjectMembers |-> [l \in BOOLEAN |->
     IF m.body = <<>> THEN [throws |-> FALSE, complexity |-> 1]
     ELSE [throws |-> walkThrows("countComplexity", m.body, l),
           complexity |-> calculateMethodComplexity(m.body, l)]]]
lowerOf ==
  [n \in ClassNames \cup ObjectNames \cup ObjectIds \cup {"AnonymousClass"} |-> toLowerCase(n)]

\* a ClassDeclaration node: id is Null for an anonymous class, superClass is Null
\* without an extends clause
ClassNodes ==
  [id : ClassNames \cup {Null}, superClass : ClassNames \cup {Null},
   body : SeqsUpTo(ClassMembers, MaxMembers)]

InterfaceNodes == [id : ClassNames, body : SeqsUpTo(InterfaceMembers, MaxMembers)]

IspOptionSets ==
  [maxMethods : {<<>>, <<1>>}, maxUnusedMethods : {<<0>>, <<1>>},
   ignoreInheritedMethods : {<<>>, <<FALSE>>}]

\* the option values create() works with
maxMethods == OrDefault(ispOptions.maxMethods, 10)
maxUnusedMethods == OrDefault(ispOptions.maxUnusedMethods, 3)
complexityVarianceThreshold == 5
ignoreInheritedMethods == NotFalse(ispOptions.ignoreInheritedMethods)

(***************************************************************************)
(* ISP detector: the Map operations on classAnalysis.                      *)
(***************************************************************************)
MapHas(map, key) == \E i \in 1..Len(map) : map[i].name = key
MapIndex(map, key) == CHOOSE i \in 1..Len(map) : map[i].name = key
MapGet(map, key) == map[MapIndex(map, key)]
\* Map.prototype.set: a present key keeps its place, a new key is appended
MapSet(map, entry) ==
  IF MapHas(map, entry.name)
  THEN [map EXCEPT ![MapIndex(map, entry.name)] = entry]
  ELSE Append(map, entry)

(***************************************************************************)
(* ISP detector: analyzeClass and its helpers.                             *)
(***************************************************************************)
\* isInheritedMethod from currentClass on.  The loop of the code has no exit on
\* a repeated class name; `seen` only serves to recognise that the loop has
\* come back to a class it left, after which it repeats for ever: "hang".
RECURSIVE isInheritedFrom(_, _, _, _, _)
isInheritedFrom(chain, analysis, currentClass, methodName, seen) ==
  IF currentClass \notin DOMAIN chain THEN "false"
  ELSE LET superClass == chain[currentClass]
       IN  IF MapHas(analysis, superClass) /\
              \E i \in 1..Len(MapGet(analysis, superClass).methods) :
                 MapGet(analysis, superClass).methods[i].name = methodName
           THEN "true"
           ELSE IF superClass \in seen THEN "hang"
           ELSE isInheritedFrom(chain, analysis, superClass, methodName,
                                seen \cup {superClass})

isInheritedMethod(chain, analysis, className, methodName) ==
  isInheritedFrom(chain, analysis, className, methodName, {className})

extractMethodInfo(member, methodType, links) ==
  [name |-> member.keyName,
   category |-> categoryOf[member.keyName],
   isUsed |-> FALSE,
   usageCount |-> 0,
   complexity |-> complexityOf[member][links].complexity,
   methodType |-> methodType]

\* the forEach over node.body.body, from member i on, with the methods pushed
\* so far: the status ("ok", "RangeError", "hang") and the methods
RECURSIVE analyzeMembers(_, _, _, _)
analyzeMembers(className, body, i, methods) ==
  IF i > Len(body) THEN [status |-> "ok", methods |-> methods]
  ELSE
    LET member == body[i]
        isMethod == member.type = "MethodDefinition" /\ member.keyName # Undefined
        isArrow == /\ member.type = "PropertyDefinition"
                   /\ member.keyName # Undefined
                   /\ member.valueType = "ArrowFunctionExpression"
    IN  IF ~(isMethod \/ isArrow)
        THEN analyzeMembers(className, body, i + 1, methods)
        ELSE
          LET methodInfo ==
                extractMethodInfo(member, IF isMethod THEN "method" ELSE "arrow",
                                  hasParentLinks)
              inherited ==
                IF ignoreInheritedMethods
                THEN isInheritedMethod(inheritanceChain, classAnalysis,
                                       className, methodInfo.name)
                ELSE "false"
          IN  IF complexityOf[member][hasParentLinks].throws
              THEN [status |-> "RangeError", methods |-> methods]
              ELSE IF excludedOf[methodInfo.name]
              THEN analyzeMembers(className, body, i + 1, methods)
              ELSE IF inherited = "hang"
              THEN [status |-> "hang", methods |-> methods]
              ELSE IF inherited = "true"
              THEN analyzeMembers(className, body, i + 1, methods)
              ELSE analyzeMembers(className, body, i + 1, Append(methods, methodInfo))

classNameOf(node) == IF node.id # Null THEN node.id ELSE "AnonymousClass"

analyzeClass(node) ==
  LET className == classNameOf(node)
      r == analyzeMembers(className, node.body, 1, <<>>)
  IN  [status |-> r.status,
       entry |-> [name |-> className,
                  methods |-> r.methods,
                  totalMethods |-> Len(r.methods),
                  unusedMethods |-> 0,
                  isInterface |-> interfaceLikeOf[className],
                  isTypeScriptInterface |-> FALSE,
                  superClass |-> node.superClass]]

\* trackInheritance: the inheritanceChain after it
trackInheritance(chain, node) ==
  IF node.superClass # Null
  THEN [c \in DOMAIN chain \cup {classNameOf(node)} |->
          IF c = classNameOf(node) THEN node.superClass ELSE chain[c]]
  ELSE chain

\* analyzeTypeScriptInterface: the entry it stores
RECURSIVE interfaceMethods(_, _)
interfaceMethods(body, i) ==
  IF i > Len(body) THEN <<>>
  ELSE IF body[i].type = "TSMethodSignature" /\ body[i].keyName # Undefined /\
          ~excludedOf[body[i].keyName]
       THEN << [name |-> body[i].keyName,
                category |-> categoryOf[body[i].keyName],
                isUsed |-> FALSE,
                usageCount |-> 0,
                complexity |-> 1,
                methodType |-> "interface"] >> \o interfaceMethods(body, i + 1)
       ELSE interfaceMethods(body, i + 1)

analyzeTypeScriptInterface(node) ==
  LET methods == interfaceMethods(node.body, 1)
  IN  [name |-> node.id,
       methods |-> methods,
       totalMethods |-> Len(methods),
       unusedMethods |-> 0,
       isInterface |-> TRUE,
       isTypeScriptInterface |-> TRUE,
       superClass |-> Null]

\* isInterfaceLikeObject
isFunctionProperty(prop) ==
  /\ prop.type = "Property"
  /\ prop.valueType \in {"FunctionExpression", "ArrowFunctionExpression"}

isInterfaceLikeObject(node) ==
  /\ Len(node.properties) >= 3
  /\ Len(SelectSeq(node.properties, isFunctionProperty)) >= 3
  /\ hasParent
  /\ node.parent.type \in {"VariableDeclarator", "AssignmentExpression", "Property"}

\* generateStableObjectId, with the counter already incremented
generateStableObjectId(node, counter) ==
  LET contextName ==
        IF node.parent.type \in {"VariableDeclarator", "Property"} /\
           node.parent.name # Undefined
        THEN node.parent.name ELSE "Object"
  IN  contextName \o "_" \o numberToString(counter)

\* the forEach over node.properties of analyzeInterfaceObject
RECURSIVE objectMethods(_, _, _)
objectMethods(properties, i, methods) ==
  IF i > Len(properties) THEN [status |-> "ok", methods |-> methods]
  ELSE
    LET prop == properties[i]
    IN  IF ~(isFunctionProperty(prop) /\ prop.keyName # Undefined)
        THEN objectMethods(properties, i + 1, methods)
        ELSE IF excludedOf[prop.keyName]
        THEN objectMethods(properties, i + 1, methods)
        ELSE IF complexityOf[prop][hasParentLinks].throws
        THEN [status |-> "RangeError", methods |-> methods]
        ELSE objectMethods(properties, i + 1,
               Append(methods, extractMethodInfo(prop, "object", hasParentLinks)))

\* analyzeInterfaceObject: the status and the entry it would store
analyzeInterfaceObject(node, counter) ==
  LET r == objectMethods(node.properties, 1, <<>>)
  IN  [status |-> r.status,
       entry |-> [name |-> generateStableObjectId(node, counter),
                  methods |-> r.methods,
                  totalMethods |-> Len(r.methods),
                  unusedMethods |-> 0,
                  isInterface |-> TRUE,
                  isTypeScriptInterface |-> FALSE,
                  superClass |-> Null]]

(***************************************************************************)
(* ISP detector: usage tracking.                                           *)
(***************************************************************************)
\* markUsed without the increment of usageCount
markUsedFlagOnly(entry, methodName) ==
  IF \E i \in 1..Len(entry.methods) : entry.methods[i].name = methodName
  THEN LET i == CHOOSE i \in 1..Len(entry.methods) :
                  /\ entry.methods[i].name = methodName
                  /\ \A j \in 1..(i - 1) : entry.methods[j].name # methodName
       IN  [entry EXCEPT !.methods[i].isUsed = TRUE]
  ELSE entry

\* classInfo.methods.find(m => m.name === methodName), then the two updates
markUsed(entry, methodName) ==
  IF \E i \in 1..Len(entry.methods) : entry.methods[i].name = methodName
  THEN LET i == CHOOSE i \in 1..Len(entry.methods) :
                  /\ entry.methods[i].name = methodName
                  /\ \A j \in 1..(i - 1) : entry.methods[j].name # methodName
       IN  [entry EXCEPT !.methods[i].isUsed = TRUE,
                         !.methods[i].usageCount = @ + 1]
  ELSE entry

\* the condition under which trackMethodUsage credits a call to a class
callMatches(entry, objectName) ==
  \/ entry.name = objectName
  \/ entry.isInterface /\ includes(lowerOf[objectName], lowerOf[entry.name])

\* trackMethodUsage on a call whose callee is object.property (Undefined for a
\* part that is not a plain identifier): the classAnalysis after it
trackMethodUsage(analysis, objectName, methodName) ==
  IF methodName # Undefined /\ objectName # Undefined
  THEN [i \in 1..Len(analysis) |->
          IF callMatches(analysis[i], objectName)
          THEN markUsed(analysis[i], methodName) ELSE analysis[i]]
  ELSE analysis

\* trackMemberAccess on object.property
trackMemberAccess(analysis, objectName, propertyName) ==
  IF propertyName # Undefined /\ objectName # Undefined
  THEN [i \in 1..Len(analysis) |->
          IF analysis[i].name = objectName
          THEN markUsed(analysis[i], propertyName) ELSE analysis[i]]
  ELSE analysis

(***************************************************************************)
(* ISP detector: the end-of-file pass.                                     *)
(***************************************************************************)
\* the keys of classInfo.methodCategories: the categories of the methods, each
\* at its first appearance
RECURSIVE categoryKeys(_, _)
categoryKeys(methods, keys) ==
  IF methods = <<>> THEN keys
  ELSE categoryKeys(Tail(methods),
                    IF Head(methods).category \in Range(keys) THEN keys
                    ELSE Append(keys, Head(methods).category))

RECURSIVE sumComplexity(_)
sumComplexity(methods) ==
  IF methods = <<>> THEN 0 ELSE Head(methods).complexity + sumComplexity(Tail(methods))

Abs(x) == IF x < 0 THEN 0 - x ELSE x

\* |c - avg| > threshold, with avg = sum / n, stated without the division
hasSegregationViolations(entry) ==
  \/ Len(categoryKeys(entry.methods, <<>>)) > 3
  \/ /\ Len(entry.methods) > 1
     /\ \E i \in 1..Len(entry.methods) :
          Abs(entry.methods[i].complexity * Len(entry.methods)
              - sumComplexity(entry.methods))
            > complexityVarianceThreshold * Len(entry.methods)

incompatiblePairs ==
  << <<"data", "ui">>, <<"validation", "communication">>, <<"calculation", "ui">>,
     <<"lifecycle", "data">>, <<"security", "ui">>, <<"navigation", "calculation">>,
     <<"utility", "data">>, <<"transformation", "ui">> >>

hasMixedResponsibilities(entry) ==
  LET names == Range(categoryKeys(entry.methods, <<>>))
  IN  \E i \in 1..Len(incompatiblePairs) :
        incompatiblePairs[i][1] \in names /\ incompatiblePairs[i][2] \in names

unusedOf(entry) == SelectSeq(entry.methods, LAMBDA m : ~m.isUsed)

reportFatInterface(entry) ==
  [kind |-> "fatInterface", className |-> entry.name,
   count |-> entry.totalMethods, methods |-> <<>>]

\* the message lists each unused method as 'name (usageCount uses)'
reportUnusedMethods(entry, unused) ==
  [kind |-> "unusedMethods", className |-> entry.name, count |-> Len(unused),
   methods |-> [i \in 1..Len(unused) |->
                  [name |-> unused[i].name, uses |-> unused[i].usageCount]]]

reportSegregationViolation(entry) ==
  [kind |-> "segregationViolation", className |-> entry.name,
   count |-> Len(categoryKeys(entry.methods, <<>>)), methods |-> <<>>]

reportMixedResponsibilities(entry) ==
  [kind |-> "mixedResponsibilities", className |-> entry.name,
   count |-> Len(categoryKeys(entry.methods, <<>>)), methods |-> <<>>]

\* classReports with the method ceiling compared by >= instead of >
classReportsAtCeiling(entry) ==
  (IF entry.totalMethods >= maxMethods THEN <<reportFatInterface(entry)>> ELSE <<>>)
  \o (IF Len(unusedOf(entry)) > maxUnusedMethods
      THEN <<reportUnusedMethods(entry, unusedOf(entry))>> ELSE <<>>)

\* the body of performISPAnalysis' forEach for one class: its reports, in order
classReports(entry) ==
  (IF entry.totalMethods > maxMethods THEN <<reportFatInterface(entry)>> ELSE <<>>)
  \o (IF Len(unusedOf(entry)) > maxUnusedMethods
      THEN <<reportUnusedMethods(entry, unusedOf(entry))>> ELSE <<>>)
  \o (IF hasSegregationViolations(entry)
      THEN <<reportSegregationViolation(entry)>> ELSE <<>>)
  \o (IF hasMixedResponsibilities(entry)
      THEN <<reportMixedResponsibilities(entry)>> ELSE <<>>)

RECURSIVE performISPAnalysis(_, _)
performISPAnalysis(analysis, i) ==
  IF i > Len(analysis) THEN <<>>
  ELSE classReports(analysis[i]) \o performISPAnalysis(analysis, i + 1)

(***************************************************************************)
(* ISP detector: the callbacks.                                            *)
(***************************************************************************)
IspInit ==
  /\ ispOptions \in IspOptionSets
  /\ classAnalysis = <<>>
  /\ inheritanceChain = <<>>
  /\ objectIdCounter = 0
  /\ ispReports = <<>>
  /\ ispPc = "walk"
  /\ ispPending = <<>>
  /\ ispEvents = 0
  /\ ispDeclared = <<>>
  /\ ispCalls = {}

\* the detector as constructed with no options and never fed a node
IspOff ==
  /\ ispOptions = [maxMethods |-> <<>>, maxUnusedMethods |-> <<>>,
                   ignoreInheritedMethods |-> <<>>]
  /\ classAnalysis = <<>>
  /\ inheritanceChain = <<>>
  /\ objectIdCounter = 0
  /\ ispReports = <<>>
  /\ ispPc = "walk"
  /\ ispPending = <<>>
  /\ ispEvents = 0
  /\ ispDeclared = <<>>
  /\ ispCalls = {}

IspFrame == UNCHANGED <<hostParent, ispOptions, objectIdCounter, lspVars, ocpVars, caVars, repoVars, dipVars, walkVars, catVars, srpVars>>

\* the methods a declaration declares: its members that are methods, method
\* signatures or arrow-function properties with a plain name
isDeclaredMethod(member) ==
  /\ member.keyName # Undefined
  /\ \/ member.type \in {"MethodDefinition", "TSMethodSignature"}
     \/ member.type = "PropertyDefinition" /\ member.valueType = "ArrowFunctionExpression"
     \/ isFunctionProperty(member)

recordDeclared(name, body) ==
  [c \in DOMAIN ispDeclared \cup {name} |->
     IF c = name
     THEN [declared |-> Len(SelectSeq(body, isDeclaredMethod)),
           excluded |-> Len(SelectSeq(body,
                          LAMBDA m : isDeclaredMethod(m) /\ excludedOf[m.keyName]))]
     ELSE ispDeclared[c]]

\* the traversal hands over one more node of a file of at most n nodes
IspDeliverWithin(n) ==
  /\ ispPc = "walk"
  /\ ispPending = <<>>
  /\ ispEvents < n
  /\ ispEvents' = ispEvents + 1

IspDeliver == IspDeliverWithin(MaxEvents)

\* the ClassDeclaration callback, given one of the nodes of a file of at most
\* n nodes
IspClassDeclarationFrom(nodes, n) ==
  /\ IspDeliverWithin(n)
  /\ \E node \in nodes :
       LET r == analyzeClass(node)
       IN  IF r.status = "ok"
           THEN /\ classAnalysis' = MapSet(classAnalysis, r.entry)
                /\ inheritanceChain' = trackInheritance(inheritanceChain, node)
                /\ ispDeclared' = recordDeclared(classNameOf(node), node.body)
                /\ ispPc' = "walk"
           ELSE /\ ispPc' = (IF r.status = "hang" THEN "hung" ELSE "crashed")
                /\ UNCHANGED <<classAnalysis, inheritanceChain, ispDeclared>>
  /\ UNCHANGED <<ispReports, ispPending, ispCalls>>
  /\ IspFrame

IspClassDeclaration == IspClassDeclarationFrom(ClassNodes, MaxEvents)

\* a file that declares and redeclares named classes with plain methods, none
\* extending itself
RedeclaredClassNodes ==
  { node \in ClassNodes :
      /\ node.id # Null
      /\ node.superClass # node.id
      /\ \A i \in 1..Len(node.body) :
            node.body[i].type = "MethodDefinition" /\ ~excludedOf[node.body[i].keyName] }

IspRedeclaration == IspClassDeclarationFrom(RedeclaredClassNodes, MaxEvents + 1)

IspTSInterfaceDeclaration ==
  /\ IspDeliver
  /\ \E node \in InterfaceNodes :
       /\ classAnalysis' = MapSet(classAnalysis, analyzeTypeScriptInterface(node))
       /\ ispDeclared' = recordDeclared(node.id, node.body)
  /\ UNCHANGED <<inheritanceChain, ispReports, ispPc, ispPending, ispCalls>>
  /\ IspFrame

\* an object literal
IspObjectExpression ==
  /\ IspDeliver
  /\ \E node \in ObjectNodes :
       IF isInterfaceLikeObject(node)
       THEN LET r == analyzeInterfaceObject(node, objectIdCounter + 1)
            IN  /\ objectIdCounter' = objectIdCounter + 1
                /\ IF r.status # "ok"
                   THEN /\ ispPc' = "crashed"
                        /\ UNCHANGED <<classAnalysis, ispDeclared>>
                   ELSE /\ ispPc' = "walk"
                        /\ IF r.entry.totalMethods > 0
                           THEN /\ classAnalysis' = MapSet(classAnalysis, r.entry)
                                /\ ispDeclared' = recordDeclared(r.entry.name, node.properties)
                           ELSE UNCHANGED <<classAnalysis, ispDeclared>>
       ELSE UNCHANGED <<objectIdCounter, classAnalysis, ispDeclared, ispPc>>
  /\ UNCHANGED <<inheritanceChain, ispReports, ispPending, ispCalls>>
  /\ UNCHANGED <<hostParent, ispOptions, lspVars, ocpVars, caVars, repoVars, dipVars, walkVars, catVars, srpVars>>

\* a call object.property(...): trackMethodUsage; the traversal then enters the
\* callee, a MemberExpression
IspCallExpression ==
  /\ IspDeliver
  /\ \E objectName \in ObjectNames \cup {Undefined},
        methodName \in PropertyNames \cup {Undefined} :
       /\ classAnalysis' = trackMethodUsage(classAnalysis, objectName, methodName)
       /\ ispPending' = << [object |-> objectName, property |-> methodName] >>
       /\ ispCalls' = IF methodName # Undefined /\ objectName # Undefined
                      THEN ispCalls \cup {[object |-> objectName, property |-> methodName]}
                      ELSE ispCalls
  /\ UNCHANGED <<inheritanceChain, ispReports, ispPc, ispDeclared>>
  /\ IspFrame

\* a member expression: the callee of the call just delivered, or one that
\* stands alone
IspMemberExpression ==
  /\ ispPc = "walk"
  /\ \/ /\ ispPending # <<>>
        /\ classAnalysis' =
             trackMemberAccess(classAnalysis, ispPending[1].object, ispPending[1].property)
        /\ UNCHANGED ispEvents
     \/ /\ IspDeliver
        /\ \E objectName \in ObjectNames \cup {Undefined},
              propertyName \in PropertyNames \cup {Undefined} :
             classAnalysis' = trackMemberAccess(classAnalysis, objectName, propertyName)
  /\ ispPending' = <<>>
  /\ UNCHANGED <<inheritanceChain, ispReports, ispPc, ispDeclared, ispCalls>>
  /\ IspFrame

\* Program:exit
IspProgramExit ==
  /\ ispPc = "walk"
  /\ ispPending = <<>>
  /\ ispReports' = ispReports \o performISPAnalysis(classAnalysis, 1)
  /\ classAnalysis' = [i \in 1..Len(classAnalysis) |->
       [classAnalysis[i] EXCEPT !.unusedMethods = Len(unusedOf(classAnalysis[i]))]]
  /\ ispPc' = "done"
  /\ UNCHANGED <<inheritanceChain, ispPending, ispEvents, ispDeclared, ispCalls>>
  /\ IspFrame

IspNext ==
  \/ IspClassDeclaration
  \/ IspTSInterfaceDeclaration
  \/ IspObjectExpression
  \/ IspCallExpression
  \/ IspMemberExpression
  \/ IspProgramExit

\* the callbacks a file of class declarations alone sets off
RedeclareNext ==
  \/ IspRedeclaration
  \/ IspProgramExit

(***************************************************************************)
(* LSP detector: inputs.                                                   *)
(***************************************************************************)
\* a MethodDefinition: key.name, kind, value.params.length and value
LspMember(keyName, kind, params, body) ==
  [keyName |-> keyName, kind |-> kind, params |-> params, body |-> body]

\* the class bodies: no method, one method m (or render, or the constructor)
\* with one of the bodies, or two methods
LspClassBodies ==
  LET m(body) == LspMember("m", "method", 1, body)
      ctor == LspMember("constructor", "constructor", 0, FnEmpty)
      render == LspMember("render", "method", 0, FnEmpty)
  IN  {<<>>, <<ctor>>, <<render>>, <<LspMember("m", "method", 0, FnEmpty)>>}
      \cup {<<m(b)>> : b \in {FnEmpty, FnNoBody, FnGuardNull, FnGuardLit, FnTypeof,
                              FnThrowE1, FnThrowE2, FnReturnNull}}
      \cup {<<m(FnEmpty), m(FnGuardNull)>>, <<ctor, m(FnGuardLit)>>,
            <<m(FnThrowE1), render>>}

LspClassNames == {"A", "B"}

LspClassNodes ==
  [id : LspClassNames \cup {Null}, superClass : LspClassNames \cup {Null},
   body : LspClassBodies]

commonOverridableMethods ==
  {"toString", "valueOf", "equals", "hashCode", "clone",
   "validate", "execute", "process", "handle", "render"}

(***************************************************************************)
(* LSP detector: the registry and the checks.                              *)
(***************************************************************************)
methodProfileOf(member) == profileOf[member.body][hasParentLinks]

\* the methods Map registerClass builds from members i on
RECURSIVE registerMethods(_, _, _)
registerMethods(body, i, methods) ==
  IF i > Len(body) THEN [status |-> "ok", methods |-> methods]
  ELSE IF body[i].keyName = Undefined
       THEN registerMethods(body, i + 1, methods)
       ELSE IF methodProfileOf(body[i]).throws
       THEN [status |-> "RangeError", methods |-> methods]
       ELSE registerMethods(body, i + 1,
              MapSet(methods, [name |-> body[i].keyName, node |-> body[i]]))

registerClass(node) ==
  LET r == registerMethods(node.body, 1, <<>>)
  IN  [status |-> r.status,
       entry |-> [name |-> classNameOf(node), methods |-> r.methods,
                  superClass |-> node.superClass]]

\* classRegistry.get(name).methods.get(methodName): <<the method's node>> or <<>>
methodInfoOf(registry, className, methodName) ==
  IF className # Null /\ MapHas(registry, className) /\
     MapHas(MapGet(registry, className).methods, methodName)
  THEN << MapGet(MapGet(registry, className).methods, methodName).node >>
  ELSE <<>>

isOverridingMethod(registry, methodNode, classNode) ==
  /\ methodNode.keyName # Undefined
  /\ classNode.superClass # Null
  /\ \/ methodInfoOf(registry, classNode.superClass, methodNode.keyName) # <<>>
     \/ methodNode.keyName \in commonOverridableMethods

hasStrongerPreconditions(methodNode, baseMethodInfo) ==
  LET current == methodProfileOf(methodNode)
      baseValidations ==
        IF baseMethodInfo = <<>> THEN 0 ELSE methodProfileOf(baseMethodInfo[1]).validations
      baseParams == IF baseMethodInfo = <<>> THEN 0 ELSE baseMethodInfo[1].params
  IN  \/ current.validations > baseValidations
      \/ methodNode.params < baseParams
      \/ current.nullChecks
      \/ current.strictChecks

\* hasWeakerPostconditions with the throw comparison answering true
hasWeakerPostconditionsOnThrowRemoval(methodNode, baseMethodInfo) ==
  \/ /\ methodProfileOf(methodNode).returnsNull
     /\ ~(baseMethodInfo # <<>> /\ methodProfileOf(baseMethodInfo[1]).returnsNull)
  \/ /\ baseMethodInfo # <<>>
     /\ methodProfileOf(baseMethodInfo[1]).hasThrow
     /\ ~methodProfileOf(methodNode).hasThrow

hasWeakerPostconditions(methodNode, baseMethodInfo) ==
  /\ methodProfileOf(methodNode).returnsNull
  /\ ~(baseMethodInfo # <<>> /\ methodProfileOf(baseMethodInfo[1]).returnsNull)

lspReport(kind, className, methodName) ==
  [kind |-> kind, className |-> className, methodName |-> methodName]

\* checkLSPViolation: the reports it makes, in order
checkLSPViolation(registry, methodNode, classNode) ==
  LET baseMethodInfo == methodInfoOf(registry, classNode.superClass, methodNode.keyName)
      className == classNameOf(classNode)
  IN  (IF hasStrongerPreconditions(methodNode, baseMethodInfo)
       THEN <<lspReport("strongerPreconditions", className, methodNode.keyName)>>
       ELSE <<>>)
      \o (IF hasWeakerPostconditions(methodNode, baseMethodInfo)
          THEN <<lspReport("weakerPostconditions", className, methodNode.keyName)>>
          ELSE <<>>)
      \o (IF baseMethodInfo # <<>> /\
             throwsNewExceptionTypes(methodProfileOf(methodNode).thrown,
                                     methodProfileOf(baseMethodInfo[1]).thrown)
          THEN <<lspReport("newExceptions", className, methodNode.keyName)>>
          ELSE <<>>)

breaksSubstitutability(registry, classNode) ==
  LET className == classNameOf(classNode)
  IN  /\ MapHas(registry, className)
      /\ MapGet(registry, className).superClass # Null
      /\ MapHas(registry, MapGet(registry, className).superClass)
      /\ LET classInfo == MapGet(registry, className)
         IN  \E i \in 1..Len(classInfo.methods) :
               LET superMethodInfo ==
                     methodInfoOf(registry, classInfo.superClass, classInfo.methods[i].name)
               IN  /\ superMethodInfo # <<>>
                   /\ throwsNewExceptionTypes(
                        methodProfileOf(classInfo.methods[i].node).thrown,
                        methodProfileOf(superMethodInfo[1]).thrown)

(***************************************************************************)
(* LSP detector: the callbacks.  The traversal enters a class declaration, *)
(* delivers its method definitions in order and leaves it.                 *)
(***************************************************************************)
\* what create() sets up for one file
LspCreated ==
  [registry |-> <<>>, reports |-> <<>>, pc |-> "walk", current |-> <<>>,
   index |-> 1, classes |-> 0, file |-> <<>>]

LspInit ==
  /\ classRegistry = LspCreated.registry
  /\ lspReports = LspCreated.reports
  /\ lspPc = LspCreated.pc
  /\ lspCurrent = LspCreated.current
  /\ lspIndex = LspCreated.index
  /\ lspClasses = LspCreated.classes
  /\ lspFile = LspCreated.file
  /\ lspParked = LspCreated

LspOff == LspInit

LspFrame == UNCHANGED <<hostParent, ispVars, ocpVars, caVars, repoVars, dipVars, walkVars, catVars, srpVars>>

\* the ClassDeclaration callback, given one of the class nodes of a file of
\* at most n classes
LspClassDeclarationFrom(nodes, n) ==
  /\ lspPc = "walk"
  /\ lspCurrent = <<>>
  /\ lspClasses < n
  /\ lspClasses' = lspClasses + 1
  /\ \E node \in nodes :
       LET r == registerClass(node)
       IN  /\ lspFile' = Append(lspFile, node)
           /\ IF r.status = "ok"
              THEN /\ classRegistry' = MapSet(classRegistry, r.entry)
                   /\ lspCurrent' = <<node>>
                   /\ UNCHANGED lspPc
              ELSE /\ lspPc' = "crashed"
                   /\ UNCHANGED <<classRegistry, lspCurrent>>
  /\ UNCHANGED <<lspReports, lspIndex, lspParked>>
  /\ LspFrame

LspClassDeclaration == LspClassDeclarationFrom(LspClassNodes, MaxClasses)

\* findParentClass: the enclosing class declaration, found through node.parent
findParentClass(classNode) == IF hasParent THEN <<classNode>> ELSE <<>>

\* MethodDefinition: whether the callback gets as far as checkLSPViolation
reachesCheck(registry, node, enclosing) ==
  LET classNode == findParentClass(enclosing)
  IN  /\ node.kind = "method"
      /\ classNode # <<>>
      /\ classNode[1].superClass # Null
      /\ isOverridingMethod(registry, node, classNode[1])

\* MethodDefinition: the reports of the callback
methodDefinitionReports(registry, node, enclosing) ==
  IF reachesCheck(registry, node, enclosing)
  THEN checkLSPViolation(registry, node, enclosing)
  ELSE <<>>

LspMethodDefinition ==
  /\ lspPc = "walk"
  /\ lspCurrent # <<>>
  /\ lspIndex <= Len(lspCurrent[1].body)
  /\ LET node == lspCurrent[1].body[lspIndex]
     IN  IF reachesCheck(classRegistry, node, lspCurrent[1]) /\ methodProfileOf(node).throws
         THEN lspPc' = "crashed" /\ UNCHANGED lspReports
         ELSE /\ lspReports' =
                   lspReports \o methodDefinitionReports(classRegistry, node, lspCurrent[1])
              /\ UNCHANGED lspPc
  /\ lspIndex' = lspIndex + 1
  /\ UNCHANGED <<classRegistry, lspCurrent, lspClasses, lspFile, lspParked>>
  /\ LspFrame

\* ClassDeclaration:exit: the reports of the callback
classExitReports(registry, classNode) ==
  IF classNode.superClass # Null /\ breaksSubstitutability(registry, classNode)
  THEN <<lspReport("substitutability", classNameOf(classNode), Undefined)>>
  ELSE <<>>

\* ClassDeclaration:exit
LspClassExit ==
  /\ lspPc = "walk"
  /\ lspCurrent # <<>>
  /\ lspIndex > Len(lspCurrent[1].body)
  /\ lspReports' = lspReports \o classExitReports(classRegistry, lspCurrent[1])
  /\ lspCurrent' = <<>>
  /\ lspIndex' = 1
  /\ UNCHANGED <<classRegistry, lspPc, lspClasses, lspFile, lspParked>>
  /\ LspFrame

LspNext ==
  \/ LspClassDeclaration
  \/ LspMethodDefinition
  \/ LspClassExit

\* two files, each with its own detector instance: classes with one method m,
\* B a base class and A a class extending B
TwoFileClassNodes ==
  { node \in LspClassNodes :
      /\ node.id # Null
      /\ node.superClass = (IF node.id = "A" THEN "B" ELSE Null)
      /\ node.body \in {<<LspMember("m", "method", 1, FnEmpty)>>,
                        <<LspMember("m", "method", 1, FnThrowE1)>>} }

LspFileClassDeclaration == LspClassDeclarationFrom(TwoFileClassNodes, MaxClasses)

\* one registry for every instance, as a Map made outside create would be
registryOfModule(running, own) == running

\* the registry an instance works with when the driver turns to it: the one
\* its own call of create made
registryOfInstance(running, own) == own

\* the driver turns from the running instance to the other one; the callbacks
\* that follow are the other instance's
LspSwitchInstance ==
  /\ lspParked' = [registry |-> classRegistry, reports |-> lspReports, pc |-> lspPc,
                    current |-> lspCurrent, index |-> lspIndex,
                    classes |-> lspClasses, file |-> lspFile]
  /\ classRegistry' = registryOfInstance(classRegistry, lspParked.registry)
  /\ lspReports' = lspParked.reports
  /\ lspPc' = lspParked.pc
  /\ lspCurrent' = lspParked.current
  /\ lspIndex' = lspParked.index
  /\ lspClasses' = lspParked.classes
  /\ lspFile' = lspParked.file
  /\ LspFrame

\* a file of a three-level hierarchy, A extends B extends C, each class with
\* no method or with one method m
ChainClassNodes ==
  { [id |-> name,
     superClass |-> (IF name = "A" THEN "B" ELSE IF name = "B" THEN "C" ELSE Null),
     body |-> body] :
      name \in {"A", "B", "C"},
      body \in {<<>>, <<LspMember("m", "method", 1, FnEmpty)>>,
                <<LspMember("m", "method", 1, FnGuardNull)>>,
                <<LspMember("m", "method", 0, FnEmpty)>>} }

LspChainClassDeclaration == LspClassDeclarationFrom(ChainClassNodes, MaxClasses + 1)

ChainNext ==
  \/ LspChainClassDeclaration
  \/ LspMethodDefinition
  \/ LspClassExit

TwoFilesNext ==
  \/ LspFileClassDeclaration
  \/ LspMethodDefinition
  \/ LspClassExit
  \/ LspSwitchInstance

(***************************************************************************)
(* OCP detector: options, file exclusion and the tests on source text.     *)
(***************************************************************************)
OcpOptionSets ==
  [maxSwitchCases : {<<>>, <<2>>}, strictMode : {<<>>, <<TRUE>>},
   allowEnumPatterns : {<<>>, <<FALSE>>}, allowFactoryPatterns : {<<>>, <<FALSE>>},
   maxTypeChecks : {<<>>}]

\* the options of the files of function declarations
TypeCheckOptionSets ==
  [maxSwitchCases : {<<>>}, strictMode : {<<>>},
   allowEnumPatterns : {<<>>}, allowFactoryPatterns : {<<>>},
   maxTypeChecks : {<<>>, <<1>>}]

maxSwitchCases == OrDefault(ocpOptions.maxSwitchCases, 5)
maxTypeChecks == OrDefault(ocpOptions.maxTypeChecks, 3)
allowFactoryPatterns == NotFalse(ocpOptions.allowFactoryPatterns)
allowEnumPatterns == NotFalse(ocpOptions.allowEnumPatterns)
strictMode == IsTrue(ocpOptions.strictMode)

Filenames == {"src/shape.js", "src/shape.test.js", "src/shape.spec.tsx",
              "src/__tests__/shape.tsx", "app.config.ts", "config/db.js",
              "src/config/view.jsx"}

\* new RegExp(prefix + "\\.(ext|...)$").test(filename), where the pattern before
\* the extension is `.*` followed or preceded by the literal text `literal`
endsWithOneOf(text, suffixes) == \E x \in suffixes : endsWith(text, x)

\* some occurrence of `literal` that ends before the final `.ext` starts
containsBeforeExtension(text, literal, extensions) ==
  \E x \in extensions :
    /\ endsWith(text, x)
    /\ includes(SubSeq(text, 1, Len(text) - Len(x)), literal)

\* excludeFilePatterns.some(pattern => new RegExp(pattern).test(filename)), for
\* the default patterns
shouldExcludeFile(filename) ==
  \/ endsWithOneOf(filename, {".test.js", ".test.ts", ".test.jsx", ".test.tsx"})
  \/ endsWithOneOf(filename, {".spec.js", ".spec.ts", ".spec.jsx", ".spec.tsx"})
  \/ containsBeforeExtension(filename, "__tests__/", {".js", ".ts", ".jsx", ".tsx"})
  \/ endsWithOneOf(filename, {".config.js", ".config.ts"})
  \/ containsBeforeExtension(filename, "config/", {".js", ".ts"})

\* \w
isWordChar(c) ==
  \/ \E i \in 1..26 : UpperChars[i] = c \/ LowerChars[i] = c
  \/ c \in {"0", "1", "2", "3", "4", "5", "6", "7", "8", "9", "_"}

\* /\bword\b/i.test(text), for a word made of word characters
testWordIgnoreCase(text, word) ==
  \E i \in 1..(Len(text) - Len(word) + 1) :
    /\ toLowerCase(SubSeq(text, i, i + Len(word) - 1)) = word
    /\ i = 1 \/ ~isWordChar(SubSeq(text, i - 1, i - 1))
    /\ i + Len(word) > Len(text) \/ ~isWordChar(SubSeq(text, i + Len(word), i + Len(word)))

\* isEnumPattern, on the text of the discriminant
isEnumPattern(discriminant) ==
  \E word \in {"type", "kind", "status", "state", "mode"} :
     testWordIgnoreCase(discriminant, word)

\* /\.(type|kind|constructor|__proto__)/.test(discriminant)
isTypeBasedSwitch(discriminant) ==
  \E property \in {".type", ".kind", ".constructor", ".__proto__"} :
     includes(discriminant, property)

\* sourceCode.getText(node) of a switch statement
switchText(node) ==
  LET RECURSIVE casesText(_)
      casesText(i) ==
        IF i > Len(node.cases) THEN ""
        ELSE " case " \o node.cases[i] \o ": break;" \o casesText(i + 1)
  IN  "switch (" \o node.discriminant \o ") {" \o casesText(1) \o " }"

\* The backquote of a template literal; source texts in this module write it ~.
Backquote == "~"

\* detectHardcodedTypes: the type names found in quotes
detectHardcodedTypes(text) ==
  {name \in {"string", "number", "boolean", "object", "array", "function"} :
     \E quote \in {"'", "\"", Backquote} : includes(text, quote \o name \o quote)}

(***************************************************************************)
(* OCP detector: inputs.                                                   *)
(***************************************************************************)
Discriminants == {"x", "shape.type", "mytype", "STATE"}

CaseLists == {<<"1", "2">>, <<"'string'", "'number'", "3">>,
              <<"1", "2", "3", "4", "5", "6">>}

\* the function a switch statement is written in, as the walk up its parents
\* finds it: none, or the first FunctionDeclaration or FunctionExpression, with
\* the name of its id and the type and name of its own parent
EnclosingFunctions ==
  { <<>>,
    << [type |-> "FunctionDeclaration", id |-> "createShape",
        parentType |-> "Program", parentName |-> Undefined] >>,
    << [type |-> "FunctionExpression", id |-> Null,
        parentType |-> "VariableDeclarator", parentName |-> "draw"] >> }

\* A switch statement.  Its parent is the statement list it stands in, the
\* Program or a function's body, a BlockStatement: never the
\* FunctionDeclaration itself.
SwitchNodes ==
  {[discriminant |-> d, cases |-> c, function |-> f,
    parentType |-> IF f = <<>> THEN "Program" ELSE "BlockStatement"] :
     d \in Discriminants, c \in CaseLists, f \in EnclosingFunctions}

\* the tests on the texts above, computed once
enumPatternOf == [d \in Discriminants |-> isEnumPattern(d)]
typeBasedOf == [d \in Discriminants |-> isTypeBasedSwitch(d)]
hardcodedOf ==
  [d \in Discriminants |-> [c \in CaseLists |->
     detectHardcodedTypes(switchText([discriminant |-> d, cases |-> c]))]]
excludedFileOf == [f \in Filenames |-> shouldExcludeFile(f)]

(***************************************************************************)
(* OCP detector: the SwitchStatement callback.                             *)
(***************************************************************************)
isFactoryFunction(fn) ==
  /\ fn.id # Null
  /\ \E word \in {"factory", "create", "builder"} : includes(toLowerCase(fn.id), word)

getFunctionName(fn) ==
  IF fn.id # Null THEN fn.id
  ELSE IF hasParent /\ fn.parentType \in {"VariableDeclarator", "Property"}
       THEN fn.parentName
       ELSE "anonymous"

\* the two exemptions of non-strict mode, on which the callback returns at once
switchExempt(node) ==
  /\ ~strictMode
  /\ \/ allowEnumPatterns /\ enumPatternOf[node.discriminant]
     \/ /\ allowFactoryPatterns
        /\ hasParent
        /\ node.parentType = "FunctionDeclaration"
        /\ node.function # <<>>
        /\ isFactoryFunction(node.function[1])

ocpReport(messageId, index) == [messageId |-> messageId, node |-> index]

\* switchStatementReports with the enum exemption kept in strict mode
switchStatementReportsEnumAlways(node, index) ==
  IF allowEnumPatterns /\ enumPatternOf[node.discriminant] THEN <<>>
  ELSE IF Len(node.cases) > maxSwitchCases
       THEN <<ocpReport("tooManySwitchCases", index)>> ELSE <<>>

\* the reports the SwitchStatement callback makes for the node, in order
switchStatementReports(node, index) ==
  IF switchExempt(node) THEN <<>>
  ELSE (IF Len(node.cases) > maxSwitchCases
        THEN <<ocpReport("tooManySwitchCases", index)>> ELSE <<>>)
       \o (IF typeBasedOf[node.discriminant]
           THEN <<ocpReport("extensionViolation", index)>> ELSE <<>>)
       \o (IF hardcodedOf[node.discriminant][node.cases] # {}
           THEN <<ocpReport("magicTypeValues", index)>> ELSE <<>>)

\* the functionTypeHandling Map after the callback
switchTypeHandling(handling, node) ==
  IF switchExempt(node) \/ ~hasParent \/ node.function = <<>> THEN handling
  ELSE LET functionName == getFunctionName(node.function[1])
           current == IF MapHas(handling, functionName)
                      THEN MapGet(handling, functionName)
                      ELSE [name |-> functionName, typeChecks |-> 0,
                            typePatterns |-> {}, hasSwitch |-> FALSE,
                            hasLongIfElse |-> FALSE]
       IN  MapSet(handling, [current EXCEPT !.hasSwitch = TRUE])

OcpInit ==
  /\ ocpOptions \in OcpOptionSets
  /\ ocpFilename \in Filenames
  /\ functionTypeHandling = <<>>
  /\ ocpReports = <<>>
  /\ ocpSwitches = <<>>
  /\ ocpFunctions = <<>>
  /\ ocpIndex = 1

OcpOff ==
  /\ ocpOptions = [maxSwitchCases |-> <<>>, strictMode |-> <<>>,
                   allowEnumPatterns |-> <<>>, allowFactoryPatterns |-> <<>>,
                   maxTypeChecks |-> <<>>]
  /\ ocpFilename = "src/shape.js"
  /\ functionTypeHandling = <<>>
  /\ ocpReports = <<>>
  /\ ocpSwitches = <<>>
  /\ ocpFunctions = <<>>
  /\ ocpIndex = 1

\* The traversal meets a switch statement.  For an excluded file create()
\* returned no callback, and nothing happens.
OcpSwitchStatement ==
  /\ Len(ocpSwitches) < MaxSwitches
  /\ \E node \in SwitchNodes :
       /\ ocpSwitches' = Append(ocpSwitches, node)
       /\ IF excludedFileOf[ocpFilename]
          THEN UNCHANGED <<ocpReports, functionTypeHandling>>
          ELSE /\ ocpReports' =
                    ocpReports \o switchStatementReports(node, Len(ocpSwitches) + 1)
               /\ functionTypeHandling' = switchTypeHandling(functionTypeHandling, node)
  /\ UNCHANGED <<ocpOptions, ocpFilename, ocpFunctions, ocpIndex>>
  /\ UNCHANGED <<hostParent, ispVars, lspVars, caVars, repoVars, dipVars, walkVars, catVars, srpVars>>

OcpNext == OcpSwitchStatement

(***************************************************************************)
(* OCP detector: type checks in functions.  The traversal enters a         *)
(* function declaration (the FunctionDeclaration callback) and then        *)
(* delivers the comparisons of its body (the BinaryExpression callback).   *)
(***************************************************************************)
\* \s* and \w* from i on: the index after the longest run
RECURSIVE spacesEnd(_, _)
spacesEnd(text, i) ==
  IF i <= Len(text) /\ isWhitespace(charAt(text, i)) THEN spacesEnd(text, i + 1) ELSE i

RECURSIVE wordEnd(_, _)
wordEnd(text, i) ==
  IF i <= Len(text) /\ isWordChar(charAt(text, i)) THEN wordEnd(text, i + 1) ELSE i

isQuote(c) == c \in {"'", "\"", Backquote}

textAt(text, i, literal) ==
  /\ i >= 1
  /\ i + Len(literal) - 1 <= Len(text)
  /\ SubSeq(text, i, i + Len(literal) - 1) = literal

\* \s*===\s* from i on: the index after it, or 0
afterStrictEquals(text, i) ==
  LET eq == spacesEnd(text, i)
  IN  IF textAt(text, eq, "===") THEN spacesEnd(text, eq + 3) ELSE 0

\* ['"~]name['"~] at i, for a name of the set
quotedNameAt(text, i, names) ==
  /\ i > 0
  /\ isQuote(charAt(text, i))
  /\ \E name \in names :
       textAt(text, i + 1, name) /\ isQuote(charAt(text, i + 1 + Len(name)))

\* ['"~]\w+['"~] at i
quotedWordAt(text, i) ==
  /\ i > 0
  /\ isQuote(charAt(text, i))
  /\ LET close == wordEnd(text, i + 1)
     IN  close > i + 1 /\ isQuote(charAt(text, close))

\* /typeof\s+\w+\s*===\s*['"~](string|number|boolean|object|function|undefined)['"~]/
typeofPattern(text) ==
  \E i \in 1..Len(text) :
    /\ textAt(text, i, "typeof")
    /\ LET operand == spacesEnd(text, i + 6)
           after == wordEnd(text, operand)
       IN  /\ operand > i + 6
           /\ after > operand
           /\ quotedNameAt(text, afterStrictEquals(text, after),
                {"string", "number", "boolean", "object", "function", "undefined"})

\* /\w+\s+instanceof\s+\w+/
instanceofPattern(text) ==
  \E i \in 3..Len(text) :
    /\ textAt(text, i, "instanceof")
    /\ isWhitespace(charAt(text, i - 1))
    /\ \E w \in 1..(i - 2) :
         /\ isWordChar(charAt(text, w))
         /\ \A k \in (w + 1)..(i - 1) : isWhitespace(charAt(text, k))
    /\ LET right == spacesEnd(text, i + 10)
       IN  right > i + 10 /\ right <= Len(text) /\ isWordChar(charAt(text, right))

\* /\w+\.property\s*===\s*.../ : the index after the equality, or 0
RECURSIVE propertyEqualsFrom(_, _, _)
propertyEqualsFrom(text, property, i) ==
  IF i > Len(text) THEN {}
  ELSE (IF /\ i > 1
           /\ isWordChar(charAt(text, i - 1))
           /\ textAt(text, i, "." \o property)
           /\ afterStrictEquals(text, i + 1 + Len(property)) > 0
        THEN {afterStrictEquals(text, i + 1 + Len(property))} ELSE {})
       \cup propertyEqualsFrom(text, property, i + 1)

\* /\w+\.constructor\s*===\s*\w+/
constructorPattern(text) ==
  \E after \in propertyEqualsFrom(text, "constructor", 1) :
    after <= Len(text) /\ isWordChar(charAt(text, after))

\* /Array\.isArray\s*\(/
isArrayPattern(text) ==
  \E i \in 1..Len(text) :
    /\ textAt(text, i, "Array.isArray")
    /\ charAt(text, spacesEnd(text, i + 13)) = "("

\* /\w+\.type\s*===\s*['"~]\w+['"~]/
typePropertyPattern(text) ==
  \E after \in propertyEqualsFrom(text, "type", 1) : quotedWordAt(text, after)

\* detectTypeCheckPattern: the name of the first pattern found, or Null
detectTypeCheckPattern(text) ==
  IF typeofPattern(text) THEN "typeof"
  ELSE IF instanceofPattern(text) THEN "instanceof"
  ELSE IF constructorPattern(text) THEN "constructor"
  ELSE IF isArrayPattern(text) THEN "Array.isArray"
  ELSE IF typePropertyPattern(text) THEN "type-property"
  ELSE Null

\* new RegExp("a.*b.*c").test(text): the parts occur in this order
RECURSIVE containsInOrder(_, _)
containsInOrder(text, parts) ==
  IF parts = <<>> THEN TRUE
  ELSE \E i \in 1..(Len(text) - Len(parts[1]) + 1) :
         /\ textAt(text, i, parts[1])
         /\ \A k \in 1..(i - 1) : ~textAt(text, k, parts[1])
         /\ containsInOrder(SubSeq(text, i + Len(parts[1]), Len(text)), Tail(parts))

\* the default forbiddenModificationPatterns, each as the alternatives of its
\* regular expression: "typeof.*===.*string|number|boolean" has three
forbiddenModificationPatterns ==
  << [pattern |-> "switch.*type", alternatives |-> {<<"switch", "type">>}],
     [pattern |-> "if.*type.*===", alternatives |-> {<<"if", "type", "===">>}],
     [pattern |-> "if.*instanceof", alternatives |-> {<<"if", "instanceof">>}],
     [pattern |-> "typeof.*===.*string|number|boolean",
      alternatives |-> {<<"typeof", "===", "string">>, <<"number">>, <<"boolean">>}] >>

\* the default extensionPatterns
extensionPatterns ==
  {"extends", "implements", "mixin", "plugin", "decorator", "factory", "strategy", "visitor"}

\* the comparisons written in the function bodies
Comparisons ==
  {"typeof x === 'string'", "x instanceof Shape", "x.type === 'circle'", "x.kind === 1"}

ComparisonLists ==
  LET t == "typeof x === 'string'"
      k == "x.kind === 1"
  IN  { <<>>, <<t, t>>, <<t, t, t, t>>, <<k, k, k, k>>,
        <<t, "x instanceof Shape", "x.type === 'circle'", t>> }

\* function name(x) { comparison; ... }
FunctionNodes == [id : {"f", "visitor"}, body : ComparisonLists]

\* sourceCode.getText(node) of a function declaration
functionText(node) ==
  LET RECURSIVE statements(_)
      statements(i) ==
        IF i > Len(node.body) THEN ""
        ELSE node.body[i] \o "; " \o statements(i + 1)
  IN  "function " \o node.id \o "(x) { " \o statements(1) \o "}"

hasExtensionPattern(node) ==
  \E pattern \in extensionPatterns : testWordIgnoreCase(functionText(node), pattern)

\* /\.call\s*\(/, /\.apply\s*\(/, /\.bind\s*\(/, /\w+\.\w+\s*\(/, /\w+\[\w+\]\s*\(/
isPolymorphicPattern(node) ==
  LET text == functionText(node)
      called(i) == charAt(text, spacesEnd(text, i)) = "("
  IN  \/ \E i \in 1..Len(text) :
           \E method \in {".call", ".apply", ".bind"} :
             textAt(text, i, method) /\ called(i + Len(method))
      \/ \E i \in 2..Len(text) :
           /\ charAt(text, i) = "."
           /\ isWordChar(charAt(text, i - 1))
           /\ wordEnd(text, i + 1) > i + 1
           /\ called(wordEnd(text, i + 1))
      \/ \E i \in 2..Len(text) :
           /\ charAt(text, i) = "["
           /\ isWordChar(charAt(text, i - 1))
           /\ wordEnd(text, i + 1) > i + 1
           /\ charAt(text, wordEnd(text, i + 1)) = "]"
           /\ called(wordEnd(text, i + 1) + 1)

\* the tests on the texts above, computed once
typeCheckPatternOf ==
  LET table == [c \in Comparisons |-> detectTypeCheckPattern(c)]
  IN  IF table = table THEN table ELSE table

modificationRisksOf ==
  LET table == [c \in Comparisons |->
        SelectSeq(forbiddenModificationPatterns,
                  LAMBDA p : \E parts \in p.alternatives : containsInOrder(c, parts))]
  IN  IF table = table THEN table ELSE table

functionFactsOf ==
  LET table == [node \in FunctionNodes |->
        [extension |-> hasExtensionPattern(node),
         polymorphic |-> isPolymorphicPattern(node)]]
  IN  IF table = table THEN table ELSE table

emptyHandling(functionName) ==
  [name |-> functionName, typeChecks |-> 0, typePatterns |-> {},
   hasSwitch |-> FALSE, hasLongIfElse |-> FALSE]

\* analyzeTypeHandling: the functionTypeHandling Map after it
analyzeTypeHandling(handling, comparison, functionName) ==
  LET current == IF MapHas(handling, functionName)
                 THEN MapGet(handling, functionName)
                 ELSE emptyHandling(functionName)
  IN  MapSet(handling,
        IF typeCheckPatternOf[comparison] # Null
        THEN [current EXCEPT !.typeChecks = @ + 1,
                             !.typePatterns = @ \cup {typeCheckPatternOf[comparison]}]
        ELSE current)

\* the reports the FunctionDeclaration callback makes for the node, in order,
\* with the Map as it is when the traversal enters the function
functionDeclarationReports(handling, node, at) ==
  IF functionFactsOf[node].extension \/ ~MapHas(handling, node.id) THEN <<>>
  ELSE LET own == MapGet(handling, node.id)
       IN  (IF own.typeChecks > maxTypeChecks
            THEN <<ocpReport("missingAbstraction", at)>> ELSE <<>>)
           \o (IF Cardinality(own.typePatterns) > 2 /\ ~functionFactsOf[node].polymorphic
               THEN <<ocpReport("lackOfPolymorphism", at)>> ELSE <<>>)
           \o (IF (own.hasSwitch \/ own.hasLongIfElse) /\ own.typeChecks > 1
               THEN <<ocpReport("conditionalComplexity", at)>> ELSE <<>>)

\* the traversal has delivered every comparison of the function it entered last
ocpFunctionDone ==
  IF ocpFunctions = <<>> THEN TRUE
  ELSE ocpIndex > Len(ocpFunctions[Len(ocpFunctions)].body)

\* FunctionDeclaration, on entering the next function of the file
OcpFunctionDeclaration ==
  /\ ocpFunctionDone
  /\ Len(ocpFunctions) < MaxFunctions
  /\ \E node \in FunctionNodes :
       /\ ocpFunctions' = Append(ocpFunctions, node)
       /\ ocpReports' =
            IF excludedFileOf[ocpFilename] THEN ocpReports
            ELSE ocpReports \o
                   functionDeclarationReports(functionTypeHandling, node,
                                              <<Len(ocpFunctions) + 1>>)
  /\ ocpIndex' = 1
  /\ UNCHANGED <<ocpOptions, ocpFilename, functionTypeHandling, ocpSwitches>>
  /\ UNCHANGED <<hostParent, ispVars, lspVars, caVars, repoVars, dipVars, walkVars, catVars, srpVars>>

\* BinaryExpression, for the next comparison of the function entered last: the
\* containing function is found through node.parent
OcpBinaryExpression ==
  /\ ~ocpFunctionDone
  /\ LET function == ocpFunctions[Len(ocpFunctions)]
         comparison == function.body[ocpIndex]
         at == <<Len(ocpFunctions), ocpIndex>>
     IN  IF excludedFileOf[ocpFilename]
         THEN UNCHANGED <<functionTypeHandling, ocpReports>>
         ELSE /\ functionTypeHandling' =
                   IF typeCheckPatternOf[comparison] # Null /\ hasParent
                   THEN analyzeTypeHandling(functionTypeHandling, comparison, function.id)
                   ELSE functionTypeHandling
              /\ ocpReports' = ocpReports \o
                   [i \in 1..Len(modificationRisksOf[comparison]) |->
                      ocpReport("modificationRisk", at)]
  /\ ocpIndex' = ocpIndex + 1
  /\ UNCHANGED <<ocpOptions, ocpFilename, ocpSwitches, ocpFunctions>>
  /\ UNCHANGED <<hostParent, ispVars, lspVars, caVars, repoVars, dipVars, walkVars, catVars, srpVars>>

TypeChecksInit ==
  /\ ocpOptions \in TypeCheckOptionSets
  /\ ocpFilename \in {"src/shape.js", "src/shape.test.js"}
  /\ functionTypeHandling = <<>>
  /\ ocpReports = <<>>
  /\ ocpSwitches = <<>>
  /\ ocpFunctions = <<>>
  /\ ocpIndex = 1

TypeChecksNext ==
  \/ OcpFunctionDeclaration
  \/ OcpBinaryExpression

(***************************************************************************)
(* Paths and glob matching (the path module and minimatch, as far as the   *)
(* detector's patterns use them).                                          *)
(***************************************************************************)
\* s.split("/")
RECURSIVE splitFrom(_, _, _)
splitFrom(s, i, part) ==
  IF i > Len(s) THEN <<part>>
  ELSE IF SubSeq(s, i, i) = "/" THEN <<part>> \o splitFrom(s, i + 1, "")
       ELSE splitFrom(s, i + 1, part \o SubSeq(s, i, i))

split(s) == splitFrom(s, 1, "")

\* parts.join("/")
RECURSIVE join(_)
join(parts) ==
  IF parts = <<>> THEN ""
  ELSE IF Len(parts) = 1 THEN parts[1]
       ELSE parts[1] \o "/" \o join(Tail(parts))

\* a file name part that a globstar or a star does not take: ".", ".." and
\* names starting with a dot
isDotPart(part) == Len(part) > 0 /\ SubSeq(part, 1, 1) = "."

\* one part of a pattern against one part of a path: a literal part, or a
\* part *suffix
partMatches(filePart, patternPart) ==
  IF Len(patternPart) > 0 /\ SubSeq(patternPart, 1, 1) = "*"
  THEN /\ ~isDotPart(filePart)
       /\ Len(filePart) > 0
       /\ endsWith(filePart, SubSeq(patternPart, 2, Len(patternPart)))
  ELSE filePart = patternPart

\* minimatch's matchOne on the parts of the path and of the pattern
RECURSIVE matchOne(_, _)
matchOne(file, pattern) ==
  IF file = <<>> \/ pattern = <<>>
  THEN IF file = <<>> /\ pattern = <<>> THEN TRUE
       ELSE IF file = <<>> THEN FALSE
       ELSE Len(file) = 1 /\ file[1] = ""
  ELSE IF pattern[1] = "**"
  THEN IF Len(pattern) = 1
       THEN \A i \in 1..Len(file) : ~isDotPart(file[i])
       ELSE \E fr \in 1..Len(file) :
              /\ \A k \in 1..(fr - 1) : ~isDotPart(file[k])
              /\ matchOne(SubSeq(file, fr, Len(file)), Tail(pattern))
  ELSE /\ partMatches(file[1], pattern[1])
       /\ matchOne(Tail(file), Tail(pattern))

minimatch(path, pattern) == matchOne(split(path), split(pattern))

someMatch(path, patterns) == \E i \in 1..Len(patterns) : minimatch(path, patterns[i])

\* path.isAbsolute
isAbsolute(path) == startsWith(path, "/")

\* the parts of an absolute path with "", "." dropped and ".." resolved
RECURSIVE normalizeParts(_, _)
normalizeParts(parts, done) ==
  IF parts = <<>> THEN done
  ELSE IF parts[1] \in {"", "."} THEN normalizeParts(Tail(parts), done)
  ELSE IF parts[1] = ".."
       THEN normalizeParts(Tail(parts),
                           IF done = <<>> THEN done ELSE SubSeq(done, 1, Len(done) - 1))
       ELSE normalizeParts(Tail(parts), Append(done, parts[1]))

\* path.dirname of a path with at least one slash
dirname(path) ==
  LET parts == split(path)
  IN  IF Len(parts) <= 1 THEN "."
      ELSE IF Len(parts) = 2 /\ parts[1] = "" THEN "/"
      ELSE join(SubSeq(parts, 1, Len(parts) - 1))

\* path.resolve(from, to): the parts of the absolute result; a relative `from`
\* is taken from the working directory
resolveParts(workingDirectory, from, to) ==
  IF isAbsolute(to) THEN normalizeParts(split(to), <<>>)
  ELSE IF isAbsolute(from) THEN normalizeParts(split(from) \o split(to), <<>>)
  ELSE normalizeParts(split(workingDirectory) \o split(from) \o split(to), <<>>)

\* path.relative between two absolute paths given by their parts
relativeParts(from, to) ==
  LET common == CHOOSE n \in 0..Len(from) :
                  /\ n <= Len(to)
                  /\ \A k \in 1..n : from[k] = to[k]
                  /\ (n < Len(from) /\ n < Len(to)) => from[n + 1] # to[n + 1]
  IN  [k \in 1..(Len(from) - common) |-> ".."] \o SubSeq(to, common + 1, Len(to))

\* process.cwd()
workingDirectory == "/repo"

(***************************************************************************)
(* The clean-architecture detector.                                        *)
(***************************************************************************)
\* options.layers as Object.entries lists it (keys that are not array
\* indices, so in the order written): the default, and a configuration that
\* declares the outer layer first
defaultLayers ==
  << [name |-> "entities", patterns |-> <<"**/entities/**", "**/domain/**">>, level |-> 1],
     [name |-> "useCases",
      patterns |-> <<"**/use-cases/**", "**/application/**", "**/services/**">>, level |-> 2],
     [name |-> "adapters",
      patterns |-> <<"**/adapters/**", "**/controllers/**", "**/presenters/**",
                     "**/gateways/**">>, level |-> 3],
     [name |-> "frameworks",
      patterns |-> <<"**/frameworks/**", "**/infrastructure/**", "**/external/**">>,
      level |-> 4] >>

outerFirstLayers ==
  << [name |-> "frameworks", patterns |-> <<"**/frameworks/**", "**/services/**">>, level |-> 4],
     [name |-> "entities", patterns |-> <<"**/entities/**">>, level |-> 1] >>

LayerOptionSets == {defaultLayers, outerFirstLayers}

frameworkPatterns ==
  <<"express", "mongoose", "sequelize", "typeorm", "axios", "fetch", "fs", "path">>
interfacePatterns == <<"**/interfaces/**", "**/ports/**", "**/contracts/**">>
allowedCrossCuts == <<"**/shared/**", "**/utils/**", "**/constants/**", "**/types/**">>
businessLogicPatterns ==
  <<"**/entities/**", "**/use-cases/**", "**/domain/**", "**/application/**">>
testPatterns == <<"**/*.test.js", "**/*.spec.js", "**/test/**", "**/tests/**">>
uiPatterns == <<"**/components/**", "**/views/**", "**/pages/**", "react", "vue", "@angular">>
databasePatterns == <<"mongoose", "sequelize", "typeorm", "mysql", "postgresql", "mongodb">>

isTestFile(filePath) == someMatch(filePath, testPatterns)
isCrossCutting(filePath) == someMatch(filePath, allowedCrossCuts)
isInterface(filePath) == someMatch(filePath, interfacePatterns)
isFramework(importPath) ==
  \E i \in 1..Len(frameworkPatterns) :
    includes(importPath, frameworkPatterns[i]) \/ startsWith(importPath, frameworkPatterns[i])
isBusinessLogic(filePath) == someMatch(filePath, businessLogicPatterns)

\* the layer of a path: <<{name, level}>>, or <<>> for null
RECURSIVE getLayerFrom(_, _, _)
getLayerFrom(layers, filePath, i) ==
  IF i > Len(layers) THEN <<>>
  ELSE IF someMatch(filePath, layers[i].patterns)
       THEN << [name |-> layers[i].name, level |-> layers[i].level] >>
       ELSE getLayerFrom(layers, filePath, i + 1)

\* the matching layer that the mutation below picks: the last one
getLayerLastMatch(layers, filePath) ==
  LET matching == {i \in 1..Len(layers) : someMatch(filePath, layers[i].patterns)}
  IN  IF matching = {} THEN <<>>
      ELSE LET i == CHOOSE k \in matching : \A m \in matching : m <= k
           IN  << [name |-> layers[i].name, level |-> layers[i].level] >>

getLayer(layers, filePath) == getLayerFrom(layers, filePath, 1)

isExternalModule(importPath) ==
  /\ ~startsWith(importPath, "./")
  /\ ~startsWith(importPath, "../")
  /\ ~isAbsolute(importPath)

resolveImportPath(importPath, currentFile) ==
  IF isExternalModule(importPath) THEN importPath
  ELSE LET currentDir == dirname(currentFile)
           resolvedPath == resolveParts(workingDirectory, currentDir, importPath)
       IN  join(relativeParts(normalizeParts(split(workingDirectory), <<>>), resolvedPath))

\* each check gives <<>> for null and <<violation>> otherwise
checkDependencyRule(layers, currentFile, importPath) ==
  LET currentLayerOrNull == getLayer(layers, currentFile)
      currentLayer == currentLayerOrNull[1]
      importLayerOrNull == getLayer(layers, importPath)
      importLayer == importLayerOrNull[1]
  IN  IF currentLayerOrNull = <<>> \/ importLayerOrNull = <<>> THEN <<>>
      ELSE IF currentLayer.level < importLayer.level
      THEN << [type |-> "dependencyRuleViolation",
               data |-> [innerLayer |-> currentLayer.name, innerLevel |-> currentLayer.level,
                         outerLayer |-> importLayer.name, outerLevel |-> importLayer.level]] >>
      ELSE <<>>

checkFrameworkDependency(currentFile, importPath) ==
  IF isBusinessLogic(currentFile) /\ isFramework(importPath)
  THEN << [type |-> "frameworkInBusinessLogic",
           data |-> [filePath |-> currentFile, framework |-> importPath]] >>
  ELSE <<>>

checkEntityDependencies(layers, currentFile, importPath) ==
  LET currentLayerOrNull == getLayer(layers, currentFile)
      currentLayer == currentLayerOrNull[1]
      importLayerOrNull == getLayer(layers, importPath)
      importLayer == importLayerOrNull[1]
  IN  IF /\ currentLayerOrNull # <<>> /\ currentLayer.name = "entities"
         /\ importLayerOrNull # <<>> /\ importLayer.name = "useCases"
      THEN << [type |-> "entityDependsOnUseCase",
               data |-> [entity |-> currentFile, useCase |-> importPath]] >>
      ELSE <<>>

\* Object.keys(layers).indexOf(name), from 1
layerIndex(layers, name) == CHOOSE i \in 1..Len(layers) : layers[i].name = name

checkSkipLayerViolation(layers, currentFile, importPath) ==
  LET currentLayerOrNull == getLayer(layers, currentFile)
      currentLayer == currentLayerOrNull[1]
      importLayerOrNull == getLayer(layers, importPath)
      importLayer == importLayerOrNull[1]
  IN  IF currentLayerOrNull = <<>> \/ importLayerOrNull = <<>> THEN <<>>
      ELSE IF importLayer.level - currentLayer.level > 1
      THEN LET next == layerIndex(layers, currentLayer.name) + 1
           IN  << [type |-> "skipLayerViolation",
                   data |-> [currentLayer |-> currentLayer.name,
                             targetLayer |-> importLayer.name,
                             intermediateLayer |->
                               IF next <= Len(layers) THEN layers[next].name
                               ELSE Undefined]] >>
      ELSE <<>>

\* checkCrossBoundaryInterface measuring the distance outward only
checkCrossBoundaryInterfaceOutward(layers, currentFile, importPath) ==
  LET currentLayerOrNull == getLayer(layers, currentFile)
      currentLayer == currentLayerOrNull[1]
      importLayerOrNull == getLayer(layers, importPath)
      importLayer == importLayerOrNull[1]
  IN  IF currentLayerOrNull = <<>> \/ importLayerOrNull = <<>> THEN <<>>
      ELSE IF /\ importLayer.level - currentLayer.level > 1
              /\ ~isInterface(importPath)
              /\ ~isCrossCutting(importPath)
      THEN << [type |-> "missingInterface", data |-> [importPath |-> importPath]] >>
      ELSE <<>>

checkCrossBoundaryInterface(layers, currentFile, importPath) ==
  LET currentLayerOrNull == getLayer(layers, currentFile)
      currentLayer == currentLayerOrNull[1]
      importLayerOrNull == getLayer(layers, importPath)
      importLayer == importLayerOrNull[1]
  IN  IF currentLayerOrNull = <<>> \/ importLayerOrNull = <<>> THEN <<>>
      ELSE IF /\ Abs(currentLayer.level - importLayer.level) > 1
              /\ ~isInterface(importPath)
              /\ ~isCrossCutting(importPath)
      THEN << [type |-> "missingInterface", data |-> [importPath |-> importPath]] >>
      ELSE <<>>

checkUIInBusinessLogic(currentFile, importPath) ==
  IF /\ isBusinessLogic(currentFile)
     /\ \E i \in 1..Len(uiPatterns) :
          minimatch(importPath, uiPatterns[i]) \/ includes(importPath, uiPatterns[i])
  THEN << [type |-> "uiInBusinessLogic", data |-> [importPath |-> importPath]] >>
  ELSE <<>>

\* checkDatabaseInUseCase without the test on the file's layer
checkDatabaseInUseCaseAnyFile(layers, currentFile, importPath) ==
  IF \E i \in 1..Len(databasePatterns) : includes(importPath, databasePatterns[i])
  THEN << [type |-> "directDatabaseInUseCase", data |-> [importPath |-> importPath]] >>
  ELSE <<>>

checkDatabaseInUseCase(layers, currentFile, importPath) ==
  LET currentLayerOrNull == getLayer(layers, currentFile)
      currentLayer == currentLayerOrNull[1]
  IN  IF /\ currentLayerOrNull # <<>> /\ currentLayer.name = "useCases"
         /\ \E i \in 1..Len(databasePatterns) : includes(importPath, databasePatterns[i])
      THEN << [type |-> "directDatabaseInUseCase", data |-> [importPath |-> importPath]] >>
      ELSE <<>>

\* context.getFilename(): the files given to the detector
CaFilenames ==
  { "/repo/src/entities/user.js", "/repo/src/entities/user.test.js",
    "/repo/src/frameworks/db.js", "/repo/src/services/order.js",
    "/repo/src/shared/entities/id.js", "/repo/src/lib/x.js", "<input>" }

\* the module paths written in the file
ImportPaths ==
  { "../frameworks/db", "../entities/user", "../services/order", "./helper",
    "express", "app/shared/frameworks/db", "/repo/src/frameworks/db",
    "../adapters/views/page", "pkg/frameworks/db", "mongoose",
    "../entities/interfaces/user" }

ImportDeclarations == {[type |-> "ImportDeclaration", source |-> v] : v \in ImportPaths}

\* calls: require(path), and calls that are not a require of one literal
CallExpressions ==
  {[type |-> "CallExpression", callee |-> "require",
    arguments |-> <<[type |-> "Literal", value |-> v]>>] : v \in ImportPaths}
  \cup
  { [type |-> "CallExpression", callee |-> "load",
     arguments |-> <<[type |-> "Literal", value |-> "../frameworks/db"]>>],
    [type |-> "CallExpression", callee |-> Undefined,
     arguments |-> <<[type |-> "Literal", value |-> "../frameworks/db"]>>],
    [type |-> "CallExpression", callee |-> "require", arguments |-> <<>>],
    [type |-> "CallExpression", callee |-> "require",
     arguments |-> <<[type |-> "Identifier", value |-> "../frameworks/db"]>>],
    [type |-> "CallExpression", callee |-> "require",
     arguments |-> <<[type |-> "Literal", value |-> "../frameworks/db"],
                     [type |-> "Literal", value |-> "../frameworks/db"]>>] }

\* the violations of one import, in the order of the checks
importChecks(layers, currentFile, importPath) ==
  LET resolvedImportPath == resolveImportPath(importPath, currentFile)
  IN  checkDependencyRule(layers, currentFile, resolvedImportPath)
      \o checkFrameworkDependency(currentFile, importPath)
      \o checkEntityDependencies(layers, currentFile, resolvedImportPath)
      \o checkSkipLayerViolation(layers, currentFile, resolvedImportPath)
      \o checkCrossBoundaryInterface(layers, currentFile, resolvedImportPath)
      \o checkUIInBusinessLogic(currentFile, importPath)
      \o checkDatabaseInUseCase(layers, currentFile, importPath)

\* the mutation below: the test-file and cross-cutting exemptions are missing
importViolationsNoSkip(layers, currentFile, importPath) ==
  importChecks(layers, currentFile, importPath)

\* what checkImportDeclaration and checkRequireCall do with an import path
importViolations(layers, currentFile, importPath) ==
  IF isTestFile(currentFile) THEN <<>>
  ELSE IF isCrossCutting(currentFile) \/ isCrossCutting(importPath) THEN <<>>
  ELSE importChecks(layers, currentFile, importPath)

\* the violations of every import path, computed once
violationsOf ==
  [l \in LayerOptionSets |-> [f \in CaFilenames |-> [v \in ImportPaths |->
     importViolations(l, f, v)]]]

caReport(violations, at) ==
  [i \in 1..Len(violations) |->
     [node |-> at, messageId |-> violations[i].type, data |-> violations[i].data]]

CaInit ==
  /\ caLayers \in LayerOptionSets
  /\ caFilename \in CaFilenames
  /\ caReports = <<>>
  /\ caImports = <<>>
  /\ layerPath = ""
  /\ layerResult = <<>>

CaOff ==
  /\ caLayers = defaultLayers
  /\ caFilename = "<input>"
  /\ caReports = <<>>
  /\ caImports = <<>>
  /\ layerPath = ""
  /\ layerResult = <<>>

CaFrame ==
  UNCHANGED <<hostParent, caLayers, caFilename, layerPath, layerResult,
              ispVars, lspVars, ocpVars, repoVars, dipVars, walkVars, catVars, srpVars>>

\* ImportDeclaration: checkImportDeclaration
CaImportDeclaration ==
  \E node \in ImportDeclarations :
    /\ Len(caImports) < MaxImports
    /\ caImports' = Append(caImports, node)
    /\ caReports' = caReports \o
         caReport(violationsOf[caLayers][caFilename][node.source], Len(caImports) + 1)
    /\ CaFrame

\* CallExpression: checkRequireCall
CaCallExpression ==
  \E node \in CallExpressions :
    /\ Len(caImports) < MaxImports
    /\ caImports' = Append(caImports, node)
    /\ caReports' =
         IF /\ node.callee = "require"
            /\ Len(node.arguments) = 1
            /\ node.arguments[1].type = "Literal"
         THEN caReports \o
                caReport(violationsOf[caLayers][caFilename][node.arguments[1].value],
                         Len(caImports) + 1)
         ELSE caReports
    /\ CaFrame

CaNext == CaImportDeclaration \/ CaCallExpression

\* getLayer applied to one path
LayerDirs == {"entities", "domain", "services", "frameworks", "infrastructure", "lib", ".cache"}

LayerPaths ==
  {join(<<"src", d, "x.js">>) : d \in LayerDirs}
  \cup {join(<<"src", d[1], d[2], "x.js">>) : d \in LayerDirs \X LayerDirs}
  \cup {"src/entities", "../entities/x.js", "/repo/src/entities/x.js", "x.js"}

LayerInit ==
  /\ caLayers \in LayerOptionSets
  /\ layerPath \in LayerPaths
  /\ layerResult = <<>>
  /\ caFilename = "<input>"
  /\ caReports = <<>>
  /\ caImports = <<>>

LayerApply ==
  /\ layerResult = <<>>
  /\ layerResult' = <<getLayer(caLayers, layerPath)>>
  /\ UNCHANGED <<hostParent, caLayers, caFilename, caReports, caImports, layerPath,
                 ispVars, lspVars, ocpVars, repoVars, dipVars, walkVars, catVars, srpVars>>

(***************************************************************************)
(* The repository-architecture detector.                                   *)
(***************************************************************************)
RepoFilenames ==
  { "/repo/src/infrastructure/UserRepositoryImpl.js", "/repo/src/data/users.js",
    "/repo/src/domain/UserRepository.ts", "/repo/src/app/users.js",
    "infrastructure/users.js" }

\* sourceCode.getText of the method bodies
MethodSources == {"{ return 1; }", "{ if (a && b || c) x(); }", "{ if(a) { b && c | d; } }"}

\* the members of a class body; a computed or quoted key has no name
RepoClassBodies ==
  { <<>>,
    << [type |-> "MethodDefinition", key |-> "findById", source |-> "{ return 1; }"] >>,
    << [type |-> "PropertyDefinition", key |-> "cache", source |-> ""],
       [type |-> "MethodDefinition", key |-> "validateUser",
        source |-> "{ if (a && b || c) x(); }"] >>,
    << [type |-> "MethodDefinition", key |-> "executeQuery",
        source |-> "{ if(a) { b && c | d; } }"],
       [type |-> "MethodDefinition", key |-> Undefined, source |-> "{ return 1; }"] >> }

\* node.id: <<>> for a class without a name
RepoClassIds == {<<>>, <<"UserRepositoryImpl">>, <<"UserRepository">>, <<"UserService">>}

\* node.implements: missing, empty, or with one interface
RepoClassNodes ==
  [type : {"ClassDeclaration"}, id : RepoClassIds,
   implements : {"undefined", "empty", "one"}, body : RepoClassBodies]

TypeAnnotations ==
  { <<>>, <<[type |-> "TSTypeReference", typeName |-> "User"]>>,
    <<[type |-> "TSTypeReference", typeName |-> "UserDTO"]>>,
    <<[type |-> "TSStringKeyword", typeName |-> ""]>> }

RepoInterfaceBodies ==
  { <<>> }
  \cup {<< [type |-> "TSMethodSignature", key |-> "findById", returnType |-> t] >> :
          t \in TypeAnnotations}
  \cup { << [type |-> "TSPropertySignature", key |-> "size", returnType |-> <<>>],
            [type |-> "TSMethodSignature", key |-> "transformAll", returnType |-> <<>>] >>,
         [i \in 1..11 |-> [type |-> "TSMethodSignature", key |-> "find", returnType |-> <<>>]] }

RepoInterfaceNodes ==
  [type : {"TSInterfaceDeclaration"},
   id : {<<"IUserRepository">>, <<"UserRepository">>, <<"Shape">>},
   body : RepoInterfaceBodies]

RepoImportNodes ==
  [type : {"ImportDeclaration"},
   source : {"../infrastructure/db", "../data/users", "mongoose", "./user"}]

isRepositoryInterface(node) ==
  node.type = "TSInterfaceDeclaration" /\ includes(node.id[1], "Repository")

\* node.id.name of a class without a name throws
isRepositoryClass(node) == node.type = "ClassDeclaration" /\ includes(node.id[1], "Repository")

\* a diagnostic names its node by <<the position of the declaration in
\* repoNodes>>, followed by the position of the member for a member
placementMessage == "Repository implementations should be in infrastructure/data layer"

\* the results below are [reports |-> the diagnostics, crashed |-> a TypeError]
Done(reports) == [reports |-> reports, crashed |-> FALSE]
Crash(reports) == [reports |-> reports, crashed |-> TRUE]
Then(first, second) ==
  IF first.crashed THEN first
  ELSE [reports |-> first.reports \o second.reports, crashed |-> second.crashed]

\* checkNamingConvention, the part for interfaces
repositoryInterfaceReports(fileName, node, at) ==
  IF isRepositoryInterface(node)
  THEN (IF ~includes(fileName, "/domain/") /\ ~includes(fileName, "/core/")
        THEN <<[node |-> at, message |-> "Repository interfaces should be in domain/core layer"]>>
        ELSE <<>>)
       \o (IF ~startsWith(node.id[1], "I") \/ ~endsWith(node.id[1], "Repository")
           THEN <<[node |-> at,
                   message |-> "Repository interface should follow naming pattern: I{Name}Repository"]>>
           ELSE <<>>)
  ELSE <<>>

\* the mutation below: one of the two directories missing from the path is
\* enough for the diagnostic
repositoryClassReportsEitherMissing(fileName, node, at) ==
  IF isRepositoryClass(node)
  THEN IF ~includes(fileName, "/infrastructure/") \/ ~includes(fileName, "/data/")
       THEN <<[node |-> at, message |-> placementMessage]>>
       ELSE <<>>
  ELSE <<>>

\* checkNamingConvention, the part for classes
repositoryClassReports(fileName, node, at) ==
  IF isRepositoryClass(node)
  THEN IF ~includes(fileName, "/infrastructure/") /\ ~includes(fileName, "/data/")
       THEN <<[node |-> at, message |-> placementMessage]>>
       ELSE <<>>
  ELSE <<>>

checkNamingConvention(fileName, node, at) ==
  repositoryInterfaceReports(fileName, node, at) \o repositoryClassReports(fileName, node, at)

businessLogicKeywords == {"validate", "calculate", "process", "transform"}
dbSpecificKeywords == {"sql", "mongo", "redis", "query", "execute"}

\* a member without a key name throws at methodName.toLowerCase()
checkMethodSignatures(member, at) ==
  IF member.type \notin {"MethodDefinition", "TSMethodSignature"} THEN Done(<<>>)
  ELSE IF member.key = Undefined THEN Crash(<<>>)
  ELSE LET methodName == toLowerCase(member.key)
       IN  Done((IF \E k \in businessLogicKeywords : includes(methodName, k)
                 THEN <<[node |-> at,
                         message |-> "Repository method '" \o member.key
                                     \o "' appears to contain business logic. Move to domain service."]>>
                 ELSE <<>>)
                \o (IF \E k \in dbSpecificKeywords : includes(methodName, k)
                    THEN <<[node |-> at,
                            message |-> "Repository method '" \o member.key
                                        \o "' exposes database implementation details"]>>
                    ELSE <<>>))

\* /if\s*\([^)]*&&[^)]*\|[^)]*\)/.test(text)

complexLogicPattern(text) ==
  \E i \in 1..Len(text) : \E open \in (i + 2)..Len(text) : \E amp \in (open + 1)..Len(text) :
  \E bar \in (amp + 2)..Len(text) : \E close \in (bar + 1)..Len(text) :
    /\ SubSeq(text, i, i + 1) = "if"
    /\ \A k \in (i + 2)..(open - 1) : isWhitespace(charAt(text, k))
    /\ charAt(text, open) = "("
    /\ SubSeq(text, amp, amp + 1) = "&&"
    /\ charAt(text, bar) = "|"
    /\ charAt(text, close) = ")"
    /\ \A k \in (open + 1)..(close - 1) : charAt(text, k) # ")"

complexLogicOf == [text \in MethodSources \cup {""} |-> complexLogicPattern(text)]

\* checkRepositoryImplementation, the loop over the methods from member i on
RECURSIVE implementationMethods(_, _, _)
implementationMethods(node, at, i) ==
  IF i > Len(node.body) THEN Done(<<>>)
  ELSE IF node.body[i].type # "MethodDefinition" THEN implementationMethods(node, at, i + 1)
  ELSE Then(Then(checkMethodSignatures(node.body[i], at \o <<i>>),
                 Done(IF complexLogicOf[node.body[i].source]
                      THEN <<[node |-> at \o <<i>>,
                              message |-> "Repository implementation contains complex business logic. Move to domain service."]>>
                      ELSE <<>>)),
            implementationMethods(node, at, i + 1))

checkRepositoryImplementation(node, at) ==
  IF ~isRepositoryClass(node) THEN Done(<<>>)
  ELSE Then(Done(IF node.implements \in {"undefined", "empty"}
                 THEN <<[node |-> at,
                         message |-> "Repository implementation should implement a repository interface"]>>
                 ELSE <<>>),
            implementationMethods(node, at, 1))

methodSignatures(node) ==
  LET idx == {i \in 1..Len(node.body) : node.body[i].type = "TSMethodSignature"}
  IN  idx

returnTypeReports(member, at) ==
  IF member.returnType # <<>>
     /\ member.returnType[1].type = "TSTypeReference"
     /\ (includes(member.returnType[1].typeName, "DTO")
         \/ includes(member.returnType[1].typeName, "Model"))
  THEN <<[node |-> at,
          message |-> "Repository method should return domain entities, not DTOs or Models"]>>
  ELSE <<>>

\* checkRepositoryInterface, the loop over the method signatures from member i on
RECURSIVE interfaceMethodsFrom(_, _, _)
interfaceMethodsFrom(node, at, i) ==
  IF i > Len(node.body) THEN Done(<<>>)
  ELSE IF node.body[i].type # "TSMethodSignature" THEN interfaceMethodsFrom(node, at, i + 1)
  ELSE Then(Then(checkMethodSignatures(node.body[i], at \o <<i>>),
                 Done(returnTypeReports(node.body[i], at \o <<i>>))),
            interfaceMethodsFrom(node, at, i + 1))

checkRepositoryInterface(node, at) ==
  IF ~isRepositoryInterface(node) THEN Done(<<>>)
  ELSE Then(Done(IF Cardinality(methodSignatures(node)) > 10
                 THEN <<[node |-> at,
                         message |-> "Repository interface has too many methods. Consider splitting into smaller interfaces."]>>
                 ELSE <<>>),
            interfaceMethodsFrom(node, at, 1))

checkDependencyDirection(fileName, node, at) ==
  IF /\ includes(fileName, "/domain/") \/ includes(fileName, "/core/")
     /\ \/ includes(node.source, "/infrastructure/")
        \/ includes(node.source, "/data/")
        \/ includes(node.source, "mongoose")
        \/ includes(node.source, "sequelize")
        \/ includes(node.source, "typeorm")
  THEN <<[node |-> at, message |-> "Domain layer should not import infrastructure dependencies"]>>
  ELSE <<>>

\* the next MethodDefinition of the class being traversed, or 0
nextMethod ==
  IF repoIndex = 0 THEN 0
  ELSE LET body == repoNodes[Len(repoNodes)].body
           rest == {i \in repoIndex..Len(body) : body[i].type = "MethodDefinition"}
       IN  IF rest = {} THEN 0 ELSE CHOOSE i \in rest : \A k \in rest : i <= k

RepoInit ==
  /\ repoFilename \in RepoFilenames
  /\ repoReports = <<>>
  /\ repoPc = "walk"
  /\ repoNodes = <<>>
  /\ repoIndex = 0

RepoOff ==
  /\ repoFilename = "/repo/src/app/users.js"
  /\ repoReports = <<>>
  /\ repoPc = "done"
  /\ repoNodes = <<>>
  /\ repoIndex = 0

RepoFrame ==
  UNCHANGED <<hostParent, repoFilename, ispVars, lspVars, ocpVars, caVars, dipVars, walkVars, catVars, srpVars>>

\* the traversal delivers a declaration when the methods of the last class
\* have all been delivered
RepoCanDeclare ==
  /\ repoPc = "walk"
  /\ nextMethod = 0
  /\ Len(repoNodes) < MaxDeclarations

RepoFinish(result) ==
  /\ repoReports' = repoReports \o result.reports
  /\ repoPc' = IF result.crashed THEN "crashed" ELSE "walk"

\* TSInterfaceDeclaration
RepoTSInterfaceDeclaration ==
  \E node \in RepoInterfaceNodes :
    LET at == <<Len(repoNodes) + 1>>
    IN  /\ RepoCanDeclare
        /\ repoNodes' = Append(repoNodes, node)
        /\ repoIndex' = 0
        /\ RepoFinish(IF isRepositoryInterface(node)
                      THEN Then(Done(checkNamingConvention(repoFilename, node, at)),
                                checkRepositoryInterface(node, at))
                      ELSE Done(<<>>))
        /\ RepoFrame

\* ClassDeclaration; node.id.name of a class without a name throws
RepoClassDeclaration ==
  \E node \in RepoClassNodes :
    LET at == <<Len(repoNodes) + 1>>
    IN  /\ RepoCanDeclare
        /\ repoNodes' = Append(repoNodes, node)
        /\ repoIndex' = 1
        /\ RepoFinish(IF node.id = <<>> THEN Crash(<<>>)
                      ELSE IF isRepositoryClass(node)
                      THEN Then(Done(checkNamingConvention(repoFilename, node, at)),
                                checkRepositoryImplementation(node, at))
                      ELSE Done(<<>>))
        /\ RepoFrame

\* ImportDeclaration
RepoImportDeclaration ==
  \E node \in RepoImportNodes :
    /\ RepoCanDeclare
    /\ repoNodes' = Append(repoNodes, node)
    /\ repoIndex' = 0
    /\ RepoFinish(Done(checkDependencyDirection(repoFilename, node, <<Len(repoNodes) + 1>>)))
    /\ RepoFrame

\* MethodDefinition, for the next method of the class being traversed;
\* node.parent.parent of a node without a parent throws
RepoMethodDefinition ==
  /\ repoPc = "walk"
  /\ nextMethod # 0
  /\ LET classNode == repoNodes[Len(repoNodes)]
         at == <<Len(repoNodes), nextMethod>>
     IN  RepoFinish(IF ~hasParent THEN Crash(<<>>)
                    ELSE IF classNode.id # <<>> /\ includes(classNode.id[1], "Repository")
                    THEN checkMethodSignatures(classNode.body[nextMethod], at)
                    ELSE Done(<<>>))
  /\ repoIndex' = nextMethod + 1
  /\ UNCHANGED repoNodes
  /\ RepoFrame

RepoNext ==
  \/ RepoTSInterfaceDeclaration
  \/ RepoClassDeclaration
  \/ RepoImportDeclaration
  \/ RepoMethodDefinition

(***************************************************************************)
(* The DIP detector.                                                       *)
(***************************************************************************)
\* s.replace(from, to) for a string `from`, and s.replace(/from$/, to): the
\* first occurrence, or s itself
replaceFirst(s, from, to) ==
  IF ~includes(s, from) THEN s
  ELSE LET i == CHOOSE k \in 1..(Len(s) - Len(from) + 1) :
                  /\ SubSeq(s, k, k + Len(from) - 1) = from
                  /\ \A m \in 1..(k - 1) : SubSeq(s, m, m + Len(from) - 1) # from
       IN  SubSeq(s, 1, i - 1) \o to \o SubSeq(s, i + Len(from), Len(s))

replaceAtEnd(s, from, to) ==
  IF endsWith(s, from) THEN SubSeq(s, 1, Len(s) - Len(from)) \o to ELSE s

\* text matches \.\w+
isExtension(text) ==
  /\ Len(text) >= 2
  /\ SubSeq(text, 1, 1) = "."
  /\ \A k \in 2..Len(text) : isWordChar(SubSeq(text, k, k))

\* s.replace(new RegExp(suffix + "(\\.\\w+)?$"), "$1"), for a suffix of word
\* characters: the leftmost place where the suffix ends the path or stands
\* before its extension
removeSuffix(s, suffix) ==
  LET places == {i \in 1..(Len(s) - Len(suffix) + 1) :
                   /\ SubSeq(s, i, i + Len(suffix) - 1) = suffix
                   /\ \/ i + Len(suffix) - 1 = Len(s)
                      \/ isExtension(SubSeq(s, i + Len(suffix), Len(s)))}
  IN  IF places = {} THEN s
      ELSE LET i == CHOOSE k \in places : \A m \in places : k <= m
           IN  SubSeq(s, 1, i - 1) \o SubSeq(s, i + Len(suffix), Len(s))

RECURSIVE removeSuffixes(_, _)
removeSuffixes(s, suffixes) ==
  IF suffixes = <<>> THEN s
  ELSE removeSuffixes(removeSuffix(s, suffixes[1]), Tail(suffixes))

concretePatterns == <<"**/concrete/**", "**/impl/**", "**/implementations/**">>
abstractPatterns == <<"**/interfaces/**", "**/abstractions/**", "**/contracts/**">>
allowedFiles == <<"**/di-container.js", "**/factory.js", "**/bootstrap.js", "**/index.js">>
concreteClassSuffixes == <<"Impl", "Implementation", "Concrete", "Service", "Repository">>
abstractClassPrefixes == <<"I", "Abstract", "Base">>

\* options.pathAliases and options.customMappings are kept as Object.entries
\* lists them: pairs <<key, value>>
\* the configurations given to the detector: the default, and ones that set
\* options
dipDefaults ==
  [excludeExternalModules |-> <<>>, checkTypeScriptTypes |-> <<>>, strictMode |-> <<>>,
   pathAliases |-> <<>>, customMappings |-> <<>>]

DipOptionSets ==
  { dipDefaults,
    [dipDefaults EXCEPT !.excludeExternalModules = <<FALSE>>],
    [dipDefaults EXCEPT !.excludeExternalModules = <<FALSE>>, !.strictMode = <<TRUE>>],
    [dipDefaults EXCEPT !.checkTypeScriptTypes = <<FALSE>>, !.strictMode = <<TRUE>>],
    [dipDefaults EXCEPT !.pathAliases = << <<"@", "src">> >>],
    [dipDefaults EXCEPT !.customMappings =
       << <<"/repo/src/impl/UserImpl.js", "/repo/src/ports/User">> >>],
    [dipDefaults EXCEPT !.pathAliases = << <<"@", "src">> >>,
                        !.excludeExternalModules = <<FALSE>>,
                        !.customMappings =
       << <<"/repo/src/impl/UserImpl.js", "/repo/src/ports/User">> >>] }

excludeExternalModules(options) == NotFalse(options.excludeExternalModules)
checkTypeScriptTypes(options) == NotFalse(options.checkTypeScriptTypes)
dipStrictMode(options) == options.strictMode # <<>> /\ options.strictMode[1]

dipIsExternalModule(options, importPath) ==
  /\ ~startsWith(importPath, "./")
  /\ ~startsWith(importPath, "../")
  /\ ~isAbsolute(importPath)
  /\ ~\E i \in 1..Len(options.pathAliases) : startsWith(importPath, options.pathAliases[i][1])

RECURSIVE resolvePathAliasFrom(_, _, _)
resolvePathAliasFrom(aliases, importPath, i) ==
  IF i > Len(aliases) THEN importPath
  ELSE IF startsWith(importPath, aliases[i][1])
       THEN replaceFirst(importPath, aliases[i][1], aliases[i][2])
       ELSE resolvePathAliasFrom(aliases, importPath, i + 1)

resolvePathAlias(options, importPath) == resolvePathAliasFrom(options.pathAliases, importPath, 1)

isConcreteImport(options, importPath) ==
  someMatch(resolvePathAlias(options, importPath), concretePatterns)

isAbstractImport(options, importPath) ==
  someMatch(resolvePathAlias(options, importPath), abstractPatterns)

isAllowedFile(filename) == someMatch(filename, allowedFiles)

hasConcreteClassSuffix(className) ==
  \E i \in 1..Len(concreteClassSuffixes) : endsWith(className, concreteClassSuffixes[i])

hasAbstractClassPrefix(className) ==
  \E i \in 1..Len(abstractClassPrefixes) : startsWith(className, abstractClassPrefixes[i])

isTypeScriptFile(filename) == endsWith(filename, ".ts") \/ endsWith(filename, ".tsx")

isTypeOnlyImport(node) ==
  \/ node.importKind = "type"
  \/ \E i \in 1..Len(node.specifiers) : node.specifiers[i].importKind = "type"

\* the file system: the paths that exist, and whether a lookup throws
\* fs.existsSync(absolutePath) and with .js, .ts, .tsx appended
fileExists(fs, filename, filePath) ==
  IF fs.fails THEN FALSE
  ELSE LET absolutePath ==
             "/" \o join(resolveParts(workingDirectory, dirname(filename), filePath))
       IN  \E ext \in {"", ".js", ".ts", ".tsx"} : (absolutePath \o ext) \in fs.files

\* the path that suggestAbstractPath derives from a concrete one
abstractPathFor(resolvedPath) ==
  removeSuffixes(
    replaceAtEnd(replaceAtEnd(replaceAtEnd(
      replaceFirst(replaceFirst(replaceFirst(resolvedPath,
        "/concrete/", "/interfaces/"), "/impl/", "/interfaces/"),
        "/implementations/", "/interfaces/"),
      "/concrete", "/interfaces"), "/impl", "/interfaces"), "/implementations", "/interfaces"),
    concreteClassSuffixes)

customMapping(options, importPath) ==
  LET hits == {i \in 1..Len(options.customMappings) : options.customMappings[i][1] = importPath}
  IN  IF hits = {} THEN <<>> ELSE <<options.customMappings[CHOOSE i \in hits : TRUE][2]>>

\* the mutation below: the derived path is suggested without looking for it
suggestAbstractPathUnchecked(options, fs, filename, importPath) ==
  IF customMapping(options, importPath) # <<>> THEN customMapping(options, importPath)
  ELSE LET resolvedPath == resolvePathAlias(options, importPath)
       IN  IF someMatch(resolvedPath, concretePatterns)
           THEN <<abstractPathFor(resolvedPath)>>
           ELSE <<>>

\* <<the suggested path>>, or <<>> for null
suggestAbstractPath(options, fs, filename, importPath) ==
  IF customMapping(options, importPath) # <<>> THEN customMapping(options, importPath)
  ELSE LET resolvedPath == resolvePathAlias(options, importPath)
       IN  IF /\ someMatch(resolvedPath, concretePatterns)
              /\ fileExists(fs, filename, abstractPathFor(resolvedPath))
           THEN <<abstractPathFor(resolvedPath)>>
           ELSE <<>>

DipFilenames == {"/repo/src/app/main.js", "/repo/src/app/main.ts", "/repo/src/index.js"}

DipImportPaths ==
  { "@/impl/UserServiceImpl", "/repo/src/impl/UserImpl.js", "lib/concrete/Db",
    "./impl/UserImpl", "/repo/src/impl/interfaces/User", "express" }

FsStates ==
  { [files |-> {}, fails |-> FALSE],
    [files |-> {"/repo/src/app/src/interfaces/User.ts", "/repo/src/interfaces/User.js"},
     fails |-> FALSE],
    [files |-> {"/repo/src/app/src/interfaces/User.ts", "/repo/src/interfaces/User.js"},
     fails |-> TRUE] }

\* node.specifiers; imported is <<>> for a default or namespace specifier
SpecifierLists ==
  { <<>>,
    << [type |-> "ImportDefaultSpecifier", imported |-> <<>>, local |-> "UserImpl",
        importKind |-> "value"],
       [type |-> "ImportSpecifier", imported |-> <<"IUserService">>, local |-> "Svc",
        importKind |-> "value"],
       [type |-> "ImportSpecifier", imported |-> <<"UserRepository">>, local |-> "Repo",
        importKind |-> "type"] >>,
    << [type |-> "ImportNamespaceSpecifier", imported |-> <<>>, local |-> "DbService",
        importKind |-> "value"],
       [type |-> "ImportSpecifier", imported |-> <<"OrderService">>, local |-> "Orders",
        importKind |-> "value"] >> }

\* import ... from, and import type ... from
DipImportDeclarations ==
  [type : {"ImportDeclaration"}, source : DipImportPaths, importKind : {"value"},
   specifiers : SpecifierLists]
  \cup [type : {"ImportDeclaration"}, source : DipImportPaths, importKind : {"type"},
        specifiers : {<<>>}]

DipCallExpressions ==
  {[type |-> "CallExpression", callee |-> "require",
    arguments |-> <<[type |-> "Literal", value |-> v]>>] : v \in DipImportPaths}
  \cup
  { [type |-> "CallExpression", callee |-> "load",
     arguments |-> <<[type |-> "Literal", value |-> "/repo/src/impl/UserImpl.js"]>>],
    [type |-> "CallExpression", callee |-> "require", arguments |-> <<>>],
    [type |-> "CallExpression", callee |-> "require",
     arguments |-> <<[type |-> "Identifier", value |-> "/repo/src/impl/UserImpl.js"]>>] }

dipReport(at, messageId, data) == <<[node |-> at, messageId |-> messageId, data |-> data]>>

\* the suggestion, or the strict-mode diagnostic, that follows a
\* directConcreteDependency
suggestionReports(options, suggestedPath, importPath, at) ==
  IF suggestedPath # <<>>
  THEN dipReport(at, "suggestAbstraction",
                 [importPath |-> importPath, suggestedPath |-> suggestedPath[1]])
  ELSE IF dipStrictMode(options)
       THEN dipReport(at, "noAbstractionFound", [importPath |-> importPath])
       ELSE <<>>

RECURSIVE checkImportSpecifiersFrom(_, _, _)
checkImportSpecifiersFrom(node, at, i) ==
  IF i > Len(node.specifiers) THEN <<>>
  ELSE LET specifier == node.specifiers[i]
           importedName ==
             IF specifier.imported # <<>> THEN specifier.imported[1] ELSE specifier.local
       IN  (IF /\ specifier.type \in {"ImportDefaultSpecifier", "ImportSpecifier"}
               /\ hasConcreteClassSuffix(importedName)
               /\ ~hasAbstractClassPrefix(importedName)
            THEN dipReport(at \o <<i>>, "concreteClassImport", [className |-> importedName])
            ELSE <<>>)
           \o checkImportSpecifiersFrom(node, at, i + 1)

checkImportSpecifiers(node, at) == checkImportSpecifiersFrom(node, at, 1)

\* the mutation below: an allow-listed file is checked like any other
dipImportReportsAllowedToo(options, fs, filename, node, at) ==
  LET importPath == node.source
  IN  IF excludeExternalModules(options) /\ dipIsExternalModule(options, importPath) THEN <<>>
      ELSE (IF isConcreteImport(options, importPath) /\ ~isAbstractImport(options, importPath)
            THEN dipReport(at, "directConcreteDependency", [importPath |-> importPath])
            ELSE <<>>)

\* checkImportDeclaration: the diagnostics for one import declaration
dipImportReports(options, fs, filename, node, at) ==
  LET importPath == node.source
      suggestedPath == suggestAbstractPath(options, fs, filename, importPath)
  IN  IF isAllowedFile(filename) THEN <<>>
      ELSE IF excludeExternalModules(options) /\ dipIsExternalModule(options, importPath)
      THEN <<>>
      ELSE IF /\ isTypeScriptFile(filename) /\ checkTypeScriptTypes(options)
              /\ isTypeOnlyImport(node)
      THEN IF isConcreteImport(options, importPath) /\ ~isAbstractImport(options, importPath)
           THEN dipReport(at, "typeScriptTypeImport", [importPath |-> importPath])
                \o (IF suggestedPath # <<>>
                    THEN dipReport(at, "suggestAbstraction",
                                   [importPath |-> importPath,
                                    suggestedPath |-> suggestedPath[1]])
                    ELSE <<>>)
           ELSE <<>>
      ELSE IF isConcreteImport(options, importPath) /\ isAbstractImport(options, importPath)
      THEN <<>>
      ELSE (IF isConcreteImport(options, importPath)
            THEN dipReport(at, "directConcreteDependency", [importPath |-> importPath])
                 \o suggestionReports(options, suggestedPath, importPath, at)
            ELSE <<>>)
           \o (IF ~isTypeOnlyImport(node) THEN checkImportSpecifiers(node, at) ELSE <<>>)

\* checkRequireCall: the diagnostics for one call
dipRequireReports(options, fs, filename, node, at) ==
  IF /\ node.callee = "require"
     /\ Len(node.arguments) = 1
     /\ node.arguments[1].type = "Literal"
  THEN LET importPath == node.arguments[1].value
       IN  IF isAllowedFile(filename) THEN <<>>
           ELSE IF excludeExternalModules(options) /\ dipIsExternalModule(options, importPath)
           THEN <<>>
           ELSE IF isConcreteImport(options, importPath) /\ ~isAbstractImport(options, importPath)
           THEN dipReport(at, "directConcreteDependency", [importPath |-> importPath])
                \o suggestionReports(options,
                                     suggestAbstractPath(options, fs, filename, importPath),
                                     importPath, at)
           ELSE <<>>
  ELSE <<>>

\* the diagnostics of every node, with nodes named from <<>>; comparing the
\* table makes TLC compute it once
dipImportReportsOf ==
  LET table == [x \in DipOptionSets \X FsStates \X DipFilenames \X DipImportDeclarations |->
                  dipImportReports(x[1], x[2], x[3], x[4], <<>>)]
  IN  IF table = table THEN table ELSE table

dipRequireReportsOf ==
  LET table == [x \in DipOptionSets \X FsStates \X DipFilenames \X DipCallExpressions |->
                  dipRequireReports(x[1], x[2], x[3], x[4], <<>>)]
  IN  IF table = table THEN table ELSE table

\* the diagnostics, their nodes named under the delivered node `at`
reportsUnder(reports, at) ==
  [i \in 1..Len(reports) |-> [reports[i] EXCEPT !.node = at \o reports[i].node]]

DipInit ==
  /\ dipOptions \in DipOptionSets
  /\ dipFilename \in DipFilenames
  /\ dipFs \in FsStates
  /\ dipReports = <<>>
  /\ dipImports = <<>>

DipOff ==
  /\ dipOptions = dipDefaults
  /\ dipFilename = "/repo/src/app/main.js"
  /\ dipFs = [files |-> {}, fails |-> FALSE]
  /\ dipReports = <<>>
  /\ dipImports = <<>>

DipFrame ==
  UNCHANGED <<hostParent, dipOptions, dipFilename, dipFs,
              ispVars, lspVars, ocpVars, caVars, repoVars, walkVars, catVars, srpVars>>

\* ImportDeclaration
DipImportDeclaration ==
  \E node \in DipImportDeclarations :
    /\ Len(dipImports) < MaxDipImports
    /\ dipImports' = Append(dipImports, node)
    /\ dipReports' = dipReports \o
         reportsUnder(dipImportReportsOf[<<dipOptions, dipFs, dipFilename, node>>],
                      <<Len(dipImports) + 1>>)
    /\ DipFrame

\* CallExpression
DipCallExpression ==
  \E node \in DipCallExpressions :
    /\ Len(dipImports) < MaxDipImports
    /\ dipImports' = Append(dipImports, node)
    /\ dipReports' = dipReports \o
         reportsUnder(dipRequireReportsOf[<<dipOptions, dipFs, dipFilename, node>>],
                      <<Len(dipImports) + 1>>)
    /\ DipFrame

DipNext == DipImportDeclaration \/ DipCallExpression

(***************************************************************************)
(* The recursive walks, applied to one method body.                        *)
(***************************************************************************)
WalkInit ==
  /\ walkInput \in [walker : Walkers, tree : Bodies]
  /\ walkResult = <<>>

WalkOff ==
  /\ walkInput = [walker |-> "countComplexity", tree |-> FnNoBody]
  /\ walkResult = <<>>

WalkApply ==
  /\ walkResult = <<>>
  /\ walkResult' = << Walk(walkInput.walker, walkInput.tree, hasParentLinks) >>
  /\ UNCHANGED <<hostParent, walkInput, ispVars, lspVars, ocpVars, caVars, repoVars, dipVars, catVars, srpVars>>

(***************************************************************************)
(* categorizeMethod, applied to one method name.                           *)
(***************************************************************************)
NameHeads == {"get", "update", "delete", "verify", "render", "init", "log", "sign",
              "go", "foo", "Is", "map", "send", "sum", "SHOW", "x"}
NameTails == {"", "User", "View", "Hash", "Back", "List", "Id"}
SampleNames == {h \o t : h \in NameHeads, t \in NameTails}

CatInit == catName \in SampleNames /\ catResult = <<>>

CatOff == catName = "x" /\ catResult = <<>>

CatApply ==
  /\ catResult = <<>>
  /\ catResult' = << categorizeMethod(catName) >>
  /\ UNCHANGED <<hostParent, catName, ispVars, lspVars, ocpVars, caVars, repoVars, dipVars, walkVars, srpVars>>

(***************************************************************************)
(* Specifications: one detector, or one function, at a time.               *)
(***************************************************************************)
(***************************************************************************)
(* The SRP detector.                                                       *)
(***************************************************************************)
SrpOptionSets ==
  [maxLines : {<<>>, <<2>>}, maxStatements : {<<1>>},
   maxComplexity : {<<>>, <<1>>}, maxMethods : {<<1>>}]

maxLines == OrDefault(srpOptions.maxLines, 50)
maxStatements == OrDefault(srpOptions.maxStatements, 10)
maxComplexity == OrDefault(srpOptions.maxComplexity, 10)
srpMaxMethods == OrDefault(srpOptions.maxMethods, 5)

\* node.body of a statement or function: absent, a node, or (in a block) the
\* array of statements
NoBody == [is |-> "none"]
BodyNode(n) == [is |-> "node", node |-> n]
BodyList(items) == [is |-> "list", items |-> items]
Stmt(type, body) == [type |-> type, body |-> body]
BlockOf(items) == Stmt("BlockStatement", BodyList(items))

\* the part of a function after its name: parameter list, the rest of the
\* first line, the following lines, the tokens of the parameter list and of
\* the body, and the body
\* () {}
ShapeEmpty ==
  [params |-> "()", open |-> "{}", rest |-> <<>>,
   paramTokens |-> <<"(", ")">>, tokens |-> <<"{", "}">>,
   body |-> BlockOf(<<>>)]
\* (a) {
\*   // twice
\*   if (a && a.b) {
\*     a = 1;
\*   }
\*
\*   return a;
\* }
ShapeBranch ==
  [params |-> "(a)", open |-> "{",
   rest |-> <<"  // twice", "  if (a && a.b) {", "    a = 1;", "  }", "", "  return a;", "}">>,
   paramTokens |-> <<"(", "a", ")">>,
   tokens |-> <<"{", "if", "(", "a", "&&", "a", ".", "b", ")", "{",
                "a", "=", "1", ";", "}", "return", "a", ";", "}">>,
   body |-> BlockOf(<<Stmt("IfStatement", NoBody), Stmt("ReturnStatement", NoBody)>>)]
\* (n) {
\*   for (;;) {
\*     n = 1;
\*   }
\* }
ShapeLoop ==
  [params |-> "(n)", open |-> "{",
   rest |-> <<"  for (;;) {", "    n = 1;", "  }", "}">>,
   paramTokens |-> <<"(", "n", ")">>,
   tokens |-> <<"{", "for", "(", ";", ";", ")", "{",
                "n", "=", "1", ";", "}", "}">>,
   body |-> BlockOf(<<Stmt("ForStatement",
                          BodyNode(BlockOf(<<Stmt("ExpressionStatement", NoBody)>>)))>>)]

Shapes == {ShapeEmpty, ShapeBranch, ShapeLoop}

\* a function node: id is <<>> for a function without a name; text is
\* sourceCode.getText(node) split at line ends, tokens the values of
\* sourceCode.getTokens(node)
FunctionDeclarationNode(name, shape) ==
  [type |-> "FunctionDeclaration", id |-> <<name>>,
   text |-> <<"function " \o name \o shape.params \o " " \o shape.open>> \o shape.rest,
   tokens |-> <<"function", name>> \o shape.paramTokens \o shape.tokens,
   body |-> BodyNode(shape.body)]

\* a function expression that is the value of a method: its text starts at
\* the parameter list
MethodValueNode(shape) ==
  [type |-> "FunctionExpression", id |-> <<>>,
   text |-> <<shape.params \o " " \o shape.open>> \o shape.rest,
   tokens |-> shape.paramTokens \o shape.tokens,
   body |-> BodyNode(shape.body)]

FunctionExpressionNode(shape) ==
  [type |-> "FunctionExpression", id |-> <<>>,
   text |-> <<"function" \o shape.params \o " " \o shape.open>> \o shape.rest,
   tokens |-> <<"function">> \o shape.paramTokens \o shape.tokens,
   body |-> BodyNode(shape.body)]

ArrowFunctionNode(shape) ==
  [type |-> "ArrowFunctionExpression", id |-> <<>>,
   text |-> <<shape.params \o " => " \o shape.open>> \o shape.rest,
   tokens |-> shape.paramTokens \o <<"=>">> \o shape.tokens,
   body |-> BodyNode(shape.body)]

MethodDefinitionNode(keyName, shape) ==
  [type |-> "MethodDefinition", key |-> keyName, value |-> MethodValueNode(shape)]

SrpFunctionNodes ==
  {FunctionDeclarationNode("f", s) : s \in Shapes}
  \cup {FunctionExpressionNode(s) : s \in Shapes}
  \cup {ArrowFunctionNode(s) : s \in Shapes}

SrpMethodDefinitions == {MethodDefinitionNode("run", s) : s \in Shapes}

\* a ClassBody node
SrpClassBodies ==
  {[type |-> "ClassBody", body |-> b] : b \in SeqsUpTo(SrpMethodDefinitions, MaxMembers)}

\* String.prototype.trim for the texts of this module
RECURSIVE trimStart(_), trimEnd(_)
trimStart(line) ==
  IF Len(line) > 0 /\ isWhitespace(charAt(line, 1))
  THEN trimStart(SubSeq(line, 2, Len(line))) ELSE line
trimEnd(line) ==
  IF Len(line) > 0 /\ isWhitespace(charAt(line, Len(line)))
  THEN trimEnd(SubSeq(line, 1, Len(line) - 1)) ELSE line
trim(line) == trimEnd(trimStart(line))

\* the filter of analyzeFunction on one line
isCodeLine(line) ==
  LET trimmed == trim(line)
  IN  trimmed # "" /\ ~startsWith(trimmed, "//") /\ ~startsWith(trimmed, "/*")

RECURSIVE countStatements(_), countStatementsOf(_)
\* the forEach of countStatements over the statements of a block
countStatementsOf(items) ==
  IF items = <<>> THEN 0
  ELSE 1 + (IF Head(items).body.is # "none" THEN countStatements(Head(items).body) ELSE 0)
         + countStatementsOf(Tail(items))
countStatements(body) ==
  IF body.is = "none" THEN 0
  ELSE IF body.node.body.is = "none" THEN 0
  ELSE countStatementsOf(body.node.body.items)

ComplexityTokens == {"if", "else", "for", "while", "case", "catch", "&&", "||", "?"}

\* the three measures analyzeFunction takes of a function node
srpMeasures(node) ==
  [lines |-> Len(SelectSeq(node.text, isCodeLine)),
   statements |-> countStatements(node.body),
   complexity |-> 1 + Len(SelectSeq(node.tokens, LAMBDA token : token \in ComplexityTokens))]

AllSrpFunctions == SrpFunctionNodes \cup {m.value : m \in SrpMethodDefinitions}

srpMeasuresOf ==
  LET table == [node \in AllSrpFunctions |-> srpMeasures(node)]
  IN  IF table = table THEN table ELSE table

srpReport(at, metric, name) == [node |-> at, metric |-> metric, functionName |-> name]

\* analyzeFunction(node, name): its reports, in order; name is <<>> for
\* undefined, `at` stands for the node
analyzeFunction(node, name, at) ==
  LET functionName == IF name # <<>> THEN name[1]
                      ELSE IF node.id # <<>> THEN node.id[1] ELSE "(anonymous)"
      measures == srpMeasuresOf[node]
  IN  (IF measures.lines > maxLines
       THEN <<srpReport(at, "lines", functionName)>> ELSE <<>>)
      \o (IF measures.statements > maxStatements
          THEN <<srpReport(at, "statements", functionName)>> ELSE <<>>)
      \o (IF measures.complexity > maxComplexity
          THEN <<srpReport(at, "complexity", functionName)>> ELSE <<>>)

\* the callbacks the traversal owes for the methods of a class body, in source
\* order: each method definition, then the function expression that is its value
RECURSIVE methodCallbacks(_, _, _)
methodCallbacks(classBody, k, j) ==
  IF j > Len(classBody.body) THEN <<>>
  ELSE <<[callback |-> "MethodDefinition", node |-> classBody.body[j], at |-> <<k, j>>]>>
       \o <<[callback |-> "FunctionExpression", node |-> classBody.body[j].value,
              at |-> <<k, j>>]>>
       \o methodCallbacks(classBody, k, j + 1)

SrpInit ==
  /\ srpOptions \in SrpOptionSets
  /\ srpReports = <<>>
  /\ srpFile = <<>>
  /\ srpPending = <<>>

\* the detector as constructed with no options and never fed a node
SrpOff ==
  /\ srpOptions = [maxLines |-> <<>>, maxStatements |-> <<1>>,
                   maxComplexity |-> <<>>, maxMethods |-> <<1>>]
  /\ srpReports = <<>>
  /\ srpFile = <<>>
  /\ srpPending = <<>>

SrpFrame ==
  UNCHANGED <<hostParent, srpOptions, ispVars, lspVars, ocpVars, caVars, repoVars,
              dipVars, walkVars, catVars>>

\* the traversal reaches a top-level node of a file of at most MaxSrpNodes
SrpDeliver(node) ==
  /\ srpPending = <<>>
  /\ Len(srpFile) < MaxSrpNodes
  /\ srpFile' = Append(srpFile, node)

\* ClassBody
SrpClassBody ==
  \E node \in SrpClassBodies :
    /\ SrpDeliver(node)
    /\ srpReports' = srpReports \o
         (IF Len(SelectSeq(node.body, LAMBDA item : item.type = "MethodDefinition"))
               > srpMaxMethods
          THEN <<srpReport(<<Len(srpFile) + 1>>, "methods", "")>> ELSE <<>>)
    /\ srpPending' = methodCallbacks(node, Len(srpFile) + 1, 1)
    /\ SrpFrame

\* FunctionDeclaration
SrpFunctionDeclaration ==
  \E node \in SrpFunctionNodes :
    /\ node.type = "FunctionDeclaration"
    /\ SrpDeliver(node)
    /\ srpReports' = srpReports \o analyzeFunction(node, node.id, <<Len(srpFile) + 1>>)
    /\ UNCHANGED srpPending
    /\ SrpFrame

\* ArrowFunctionExpression
SrpArrowFunctionExpression ==
  \E node \in SrpFunctionNodes :
    /\ node.type = "ArrowFunctionExpression"
    /\ SrpDeliver(node)
    /\ srpReports' = srpReports \o
         analyzeFunction(node, <<"(arrow function)">>, <<Len(srpFile) + 1>>)
    /\ UNCHANGED srpPending
    /\ SrpFrame

\* MethodDefinition
SrpMethodDefinition ==
  /\ srpPending # <<>>
  /\ srpPending[1].callback = "MethodDefinition"
  /\ LET node == srpPending[1].node
     IN  srpReports' = srpReports \o
           (IF node.value.type \in {"FunctionExpression", "ArrowFunctionExpression"}
            THEN analyzeFunction(node.value, <<node.key>>, srpPending[1].at)
            ELSE <<>>)
  /\ srpPending' = Tail(srpPending)
  /\ UNCHANGED srpFile
  /\ SrpFrame

\* FunctionExpression: the value of the method definition just delivered, or
\* a function expression of the top level
SrpFunctionExpression ==
  /\ \/ /\ srpPending # <<>>
        /\ srpPending[1].callback = "FunctionExpression"
        /\ srpReports' = srpReports \o
             analyzeFunction(srpPending[1].node, srpPending[1].node.id, srpPending[1].at)
        /\ srpPending' = Tail(srpPending)
        /\ UNCHANGED srpFile
     \/ \E node \in SrpFunctionNodes :
          /\ node.type = "FunctionExpression"
          /\ SrpDeliver(node)
          /\ srpReports' = srpReports \o analyzeFunction(node, node.id, <<Len(srpFile) + 1>>)
          /\ UNCHANGED srpPending
  /\ SrpFrame

SrpNext ==
  \/ SrpClassBody
  \/ SrpFunctionDeclaration
  \/ SrpArrowFunctionExpression
  \/ SrpMethodDefinition
  \/ SrpFunctionExpression

vars == <<hostParent, ispVars, lspVars, ocpVars, caVars, repoVars, dipVars, walkVars, catVars, srpVars>>

InitISP == hostParent \in HostParents /\ IspInit /\ LspOff /\ OcpOff /\ CaOff /\ RepoOff /\ DipOff /\ WalkOff /\ CatOff /\ SrpOff
SpecISP == InitISP /\ [][IspNext]_vars

InitRedeclare ==
  /\ hostParent = "hidden"
  /\ IspInit /\ LspOff /\ OcpOff /\ CaOff /\ RepoOff /\ DipOff /\ WalkOff /\ CatOff /\ SrpOff
NextRedeclare == RedeclareNext
SpecRedeclare == InitRedeclare /\ [][NextRedeclare]_vars

InitLSP == hostParent \in HostParents /\ LspInit /\ IspOff /\ OcpOff /\ CaOff /\ RepoOff /\ DipOff /\ WalkOff /\ CatOff /\ SrpOff
SpecLSP == InitLSP /\ [][LspNext]_vars

InitTwoFiles ==
  /\ hostParent = "hidden"
  /\ LspInit /\ IspOff /\ OcpOff /\ CaOff /\ RepoOff /\ DipOff /\ WalkOff /\ CatOff /\ SrpOff
NextTwoFiles == TwoFilesNext
SpecTwoFiles == InitTwoFiles /\ [][NextTwoFiles]_vars

InitChain ==
  /\ hostParent = "hidden"
  /\ LspInit /\ IspOff /\ OcpOff /\ CaOff /\ RepoOff /\ DipOff /\ WalkOff /\ CatOff /\ SrpOff
NextChain == ChainNext
SpecChain == InitChain /\ [][NextChain]_vars

InitOCP ==
  hostParent \in {"enumerable", "absent"} /\ OcpInit /\ IspOff /\ LspOff /\ CaOff /\ RepoOff /\ DipOff /\ WalkOff /\ CatOff /\ SrpOff
SpecOCP == InitOCP /\ [][OcpNext]_vars

InitTypeChecks ==
  /\ hostParent \in {"enumerable", "absent"}
  /\ TypeChecksInit /\ IspOff /\ LspOff /\ CaOff /\ RepoOff /\ DipOff /\ WalkOff /\ CatOff /\ SrpOff
NextTypeChecks == TypeChecksNext
SpecTypeChecks == InitTypeChecks /\ [][NextTypeChecks]_vars

InitCA == hostParent = "absent" /\ CaInit /\ IspOff /\ LspOff /\ OcpOff /\ RepoOff /\ DipOff /\ WalkOff /\ CatOff /\ SrpOff
NextCA == CaNext
SpecCA == InitCA /\ [][NextCA]_vars

InitLayer == hostParent = "absent" /\ LayerInit /\ IspOff /\ LspOff /\ OcpOff /\ RepoOff /\ DipOff /\ WalkOff /\ CatOff /\ SrpOff
NextLayer == LayerApply
SpecLayer == InitLayer /\ [][NextLayer]_vars

InitRepo ==
  hostParent \in {"enumerable", "absent"} /\ RepoInit
  /\ IspOff /\ LspOff /\ OcpOff /\ CaOff /\ DipOff /\ WalkOff /\ CatOff /\ SrpOff
SpecRepo == InitRepo /\ [][RepoNext]_vars

InitDIP ==
  hostParent = "absent" /\ DipInit
  /\ IspOff /\ LspOff /\ OcpOff /\ CaOff /\ RepoOff /\ WalkOff /\ CatOff /\ SrpOff
SpecDIP == InitDIP /\ [][DipNext]_vars

InitWalk == hostParent \in HostParents /\ WalkInit /\ IspOff /\ LspOff /\ OcpOff /\ CaOff /\ RepoOff /\ DipOff /\ CatOff /\ SrpOff
NextWalk == WalkApply
SpecWalk == InitWalk /\ [][NextWalk]_vars

InitSRP ==
  /\ hostParent = "absent"
  /\ SrpInit /\ IspOff /\ LspOff /\ OcpOff /\ CaOff /\ RepoOff /\ DipOff /\ WalkOff /\ CatOff
NextSRP == SrpNext
SpecSRP == InitSRP /\ [][NextSRP]_vars

InitCategorize == hostParent = "absent" /\ CatInit /\ IspOff /\ LspOff /\ OcpOff /\ CaOff /\ RepoOff /\ DipOff /\ WalkOff /\ SrpOff
NextCategorize == CatApply
SpecCategorize == InitCategorize /\ [][NextCategorize]_vars

(***************************************************************************)
(* Properties of the ISP detector.                                         *)
(***************************************************************************)
reportsOf(kind, className) ==
  SelectSeq(ispReports, LAMBDA r : r.kind = kind /\ r.className = className)

\* the ceilings as the options state them (the default where none is stated)
configuredMaxMethods ==
  IF ispOptions.maxMethods = <<>> THEN 10 ELSE ispOptions.maxMethods[1]
configuredMaxUnusedMethods ==
  IF ispOptions.maxUnusedMethods = <<>> THEN 3 ELSE ispOptions.maxUnusedMethods[1]

\* C1 as stated: once the file is analysed, every class, interface or
\* interface object on record whose number of declared methods exceeds
\* maxMethods has exactly one fat-interface report, whatever the methods'
\* names, and every other one has none.
C1_FatPerDeclaredMethods ==
  ispPc = "done" =>
    \A i \in 1..Len(classAnalysis) :
      LET e == classAnalysis[i]
      IN  Len(reportsOf("fatInterface", e.name)) =
            (IF ispDeclared[e.name].declared > maxMethods THEN 1 ELSE 0)

\* C1 as amended: the methods that count are the declared ones whose name
\* contains none of the excludePatterns and that were not skipped as inherited.
\* A record has exactly one fat-interface report when that count exceeds
\* maxMethods and none otherwise; the count is the declared methods less the
\* excluded ones when inherited methods are not ignored, and never more.  No
\* report exists before the end-of-file pass.
C1_FatPerCountedMethods ==
  /\ ispPc # "done" => ispReports = <<>>
  /\ ispPc = "done" =>
       \A i \in 1..Len(classAnalysis) :
         LET e == classAnalysis[i]
             d == ispDeclared[e.name]
         IN  /\ Len(reportsOf("fatInterface", e.name)) =
                  (IF e.totalMethods > maxMethods THEN 1 ELSE 0)
             /\ e.totalMethods <= d.declared - d.excluded
             /\ (~ignoreInheritedMethods \/ e.isTypeScriptInterface)
                  => e.totalMethods = d.declared - d.excluded

\* a record over the ceiling by its counted methods, one of whose declared
\* methods was excluded by name, and its single report
C1_Witness ==
  /\ ispPc = "done"
  /\ \E i \in 1..Len(classAnalysis) :
       LET e == classAnalysis[i]
       IN  /\ e.totalMethods > maxMethods
           /\ ispDeclared[e.name].excluded > 0
           /\ Len(reportsOf("fatInterface", e.name)) = 1

\* C5: a record with N counted methods of which U were never referenced, with
\* configured ceilings maxMethods < N and maxUnusedMethods < U, has both a
\* fat-interface and an unused-methods report, and the latter names each of
\* the U methods.
C5_FatAndUnusedReported ==
  ispPc = "done" =>
    \A i \in 1..Len(classAnalysis) :
      LET e == classAnalysis[i]
          unreferenced == SelectSeq(e.methods, LAMBDA m : m.usageCount = 0)
      IN  (configuredMaxMethods < e.totalMethods /\
           configuredMaxUnusedMethods < Len(unreferenced))
          => /\ reportsOf("fatInterface", e.name) # <<>>
             /\ reportsOf("unusedMethods", e.name) # <<>>
             /\ [k \in 1..Len(unreferenced) |-> unreferenced[k].name] =
                  [k \in 1..Len(reportsOf("unusedMethods", e.name)[1].methods) |->
                     reportsOf("unusedMethods", e.name)[1].methods[k].name]

\* C8: isInheritedMethod terminates on every inheritance chain the class
\* declarations of a file can build, and no ClassDeclaration callback is
\* stuck in it.
C8_IsInheritedTerminates ==
  /\ ispPc # "hung"
  /\ \A c \in ClassNames \cup {"AnonymousClass"}, m \in MemberNames :
       isInheritedMethod(inheritanceChain, classAnalysis, c, m) # "hang"

(***************************************************************************)
(* Properties of the recursive walks.                                      *)
(***************************************************************************)
\* C9: a walk over a method body returns without exhausting the stack, also
\* on a tree whose nodes carry parent links, and enters no node twice.
C9_WalksTerminate ==
  walkResult # <<>> =>
    /\ ~walkResult[1].overflow
    /\ \A i, j \in 1..Len(walkResult[1].visited) :
         walkResult[1].visited[i] = walkResult[1].visited[j] => i = j

(***************************************************************************)
(* Properties of categorizeMethod.                                         *)
(***************************************************************************)
\* the groups with a keyword occurring in the lowercased name
matchingGroups(methodName) ==
  {i \in 1..Len(categories) :
     \E kw \in Range(categories[i].keywords) : includes(toLowerCase(methodName), kw)}

\* C10: categorizeMethod answers with the first group, in the order data,
\* validation, transformation, communication, calculation, ui, lifecycle,
\* utility, security, navigation, that has a keyword occurring in the
\* lowercased name, and with 'general' when there is none.
C10_FirstMatchingGroup ==
  /\ [i \in 1..Len(categories) |-> categories[i].category] =
       <<"data", "validation", "transformation", "communication", "calculation",
         "ui", "lifecycle", "utility", "security", "navigation">>
  /\ catResult # <<>> =>
       LET matching == matchingGroups(catName)
       IN  IF matching = {} THEN catResult[1] = "general"
           ELSE \E i \in matching :
                  /\ \A j \in matching : i <= j
                  /\ catResult[1] = categories[i].category

\* a name with upper-case letters that matches a data keyword and a ui or
\* lifecycle keyword, categorized as data
C10_Witness ==
  /\ catResult = <<"data">>
  /\ catName # toLowerCase(catName)
  /\ matchingGroups(catName) \cap {6, 7} # {}

(***************************************************************************)
(* Properties of the LSP detector.                                         *)
(***************************************************************************)
\* the validation guards of a method as written (what getParameterValidations
\* collects when it returns)
guardsOf(member) == profileOf[member.body][FALSE].validations

\* C2: when the method definition A.m is delivered, A extends another class B
\* and B.m is on record: if B.m has no validation guard and A.m has one, a
\* stronger-precondition report is made for A.m; if both have the same number
\* of guards and of parameters, none is made.
C2_StrongerPreconditionByGuards ==
  [][ (lspPc = "walk" /\ lspCurrent # <<>> /\ lspIndex <= Len(lspCurrent[1].body)) =>
        LET classNode == lspCurrent[1]
            node == classNode.body[lspIndex]
            base == methodInfoOf(classRegistry, classNode.superClass, node.keyName)
            reported ==
              \E i \in (Len(lspReports) + 1)..Len(lspReports') :
                 /\ lspReports'[i].kind = "strongerPreconditions"
                 /\ lspReports'[i].methodName = node.keyName
        IN  (node.kind = "method" /\ base # <<>> /\
             classNode.superClass # classNameOf(classNode)) =>
              /\ (guardsOf(base[1]) = 0 /\ guardsOf(node) = 1) => reported
              /\ (guardsOf(base[1]) = guardsOf(node) /\ base[1].params = node.params)
                   => ~reported
    ]_vars

(***************************************************************************)
(* Properties of the OCP detector.                                         *)
(***************************************************************************)
\* the maximal runs of word characters of a text, lowercased
RECURSIVE wordsOf(_, _)
wordsOf(text, word) ==
  IF text = "" THEN (IF word = "" THEN {} ELSE {word})
  ELSE LET c == SubSeq(text, 1, 1)
           rest == SubSeq(text, 2, Len(text))
       IN  IF isWordChar(c) THEN wordsOf(rest, word \o lowerChar(c))
           ELSE (IF word = "" THEN {} ELSE {word}) \cup wordsOf(rest, "")

\* the discriminant mentions type, kind, status, state or mode as a word
mentionsEnumWord(discriminant) ==
  wordsOf(discriminant, "") \cap {"type", "kind", "status", "state", "mode"} # {}

tooManyReports(index) ==
  Len(SelectSeq(ocpReports,
                LAMBDA r : r.messageId = "tooManySwitchCases" /\ r.node = index))

\* what C3 states of the switch statement met as number `index`
switchCasesRule(index) ==
  LET node == ocpSwitches[index]
  IN  Len(node.cases) > maxSwitchCases =>
        IF ~mentionsEnumWord(node.discriminant) THEN tooManyReports(index) = 1
        ELSE /\ ocpOptions.strictMode = <<TRUE>> => tooManyReports(index) = 1
             /\ (ocpOptions.strictMode = <<>> /\ ocpOptions.allowEnumPatterns = <<>>)
                  => tooManyReports(index) = 0

matchingLayers(path) ==
  {i \in 1..Len(caLayers) :
     \E j \in 1..Len(caLayers[i].patterns) : minimatch(path, caLayers[i].patterns[j])}

\* C7: getLayer returns the first layer, in the declared order of the layer
\* definitions, that has a glob pattern matching the path, and no layer when
\* none matches
C7_FirstMatchingLayer ==
  layerResult # <<>> =>
    IF matchingLayers(layerPath) = {} THEN layerResult[1] = <<>>
    ELSE LET first == CHOOSE i \in matchingLayers(layerPath) :
                        \A k \in matchingLayers(layerPath) : i <= k
         IN  layerResult[1] =
               << [name |-> caLayers[first].name, level |-> caLayers[first].level] >>

\* a path that two layers match has been classified
C7_Witness ==
  /\ layerResult # <<>>
  /\ layerResult[1] # <<>>
  /\ Cardinality(matchingLayers(layerPath)) >= 2

\* the delivered nodes that are imports: import declarations, and calls of
\* require with one literal argument
isImportNode(node) ==
  \/ node.type = "ImportDeclaration"
  \/ /\ node.type = "CallExpression"
     /\ node.callee = "require"
     /\ Len(node.arguments) = 1
     /\ node.arguments[1].type = "Literal"

importPathOf(node) ==
  IF node.type = "ImportDeclaration" THEN node.source ELSE node.arguments[1].value

dependencyRuleReported(k) ==
  \E r \in 1..Len(caReports) :
    caReports[r].node = k /\ caReports[r].messageId = "dependencyRuleViolation"

\* importer and target are both classified, the importer at the lower level
importsOutward(node) ==
  LET importer == getLayer(caLayers, caFilename)
      target == getLayer(caLayers, resolveImportPath(importPathOf(node), caFilename))
  IN  importer # <<>> /\ target # <<>> /\ importer[1].level < target[1].level

\* the file or the import path is exempt from the checks
importExempt(node) ==
  \/ someMatch(caFilename, testPatterns)
  \/ someMatch(caFilename, allowedCrossCuts)
  \/ someMatch(importPathOf(node), allowedCrossCuts)

\* C4, as stated: a dependencyRuleViolation is emitted for an import exactly
\* when the importer's level is below the target's level
C4_ViolationIffOutward ==
  \A k \in 1..Len(caImports) :
    isImportNode(caImports[k]) =>
      (dependencyRuleReported(k) <=> importsOutward(caImports[k]))

\* C4, amended: outside test files and cross-cutting files, and for import
\* paths that are not cross-cutting, a dependencyRuleViolation is emitted for
\* an import exactly when the importer's level is below the target's level;
\* for the exempt files and paths none is emitted
C4_ViolationIffOutwardUnlessExempt ==
  \A k \in 1..Len(caImports) :
    /\ isImportNode(caImports[k]) =>
         (dependencyRuleReported(k) <=>
            (~importExempt(caImports[k]) /\ importsOutward(caImports[k])))
    /\ ~isImportNode(caImports[k]) => ~dependencyRuleReported(k)

\* one import of an outer layer is reported, and another one of an outer
\* layer, by a cross-cutting path, is not
C4_Witness ==
  \E k, j \in 1..Len(caImports) :
    /\ isImportNode(caImports[k]) /\ isImportNode(caImports[j])
    /\ importsOutward(caImports[k]) /\ dependencyRuleReported(k)
    /\ importsOutward(caImports[j]) /\ importExempt(caImports[j])
    /\ ~dependencyRuleReported(j)

\* the directory-placement diagnostics emitted for declaration k
placementReports(k) ==
  {r \in 1..Len(repoReports) :
     repoReports[r].node = <<k>> /\ repoReports[r].message = placementMessage}

isNamedRepositoryClass(node) ==
  node.type = "ClassDeclaration" /\ node.id # <<>> /\ includes(node.id[1], "Repository")

\* C6: for a class declaration whose name contains 'Repository', exactly one
\* directory-placement diagnostic is emitted when the file's path contains
\* neither '/infrastructure/' nor '/data/', and none when it contains either
C6_OnePlacementReport ==
  \A k \in 1..Len(repoNodes) :
    isNamedRepositoryClass(repoNodes[k]) =>
      Cardinality(placementReports(k)) =
        (IF includes(repoFilename, "/infrastructure/") \/ includes(repoFilename, "/data/")
         THEN 0 ELSE 1)

\* a repository class outside the two directories has been reported once
C6_Witness ==
  \E k \in 1..Len(repoNodes) :
    /\ isNamedRepositoryClass(repoNodes[k])
    /\ repoNodes[k].id[1] = "UserRepositoryImpl"
    /\ ~includes(repoFilename, "/infrastructure/")
    /\ ~includes(repoFilename, "/data/")
    /\ Cardinality(placementReports(k)) = 1

\* C11: a class declaration without a name never makes a handler raise an
\* error: the repository-architecture detector keeps walking after it
C11_AnonymousClassHandled ==
  \A k \in 1..Len(repoNodes) :
    (repoNodes[k].type = "ClassDeclaration" /\ repoNodes[k].id = <<>>)
      => repoPc # "crashed"

\* the delivered nodes of the DIP detector that are imports, and their paths
isDipImportNode(node) ==
  \/ node.type = "ImportDeclaration"
  \/ /\ node.type = "CallExpression"
     /\ node.callee = "require"
     /\ Len(node.arguments) = 1
     /\ node.arguments[1].type = "Literal"

dipImportPathOf(node) ==
  IF node.type = "ImportDeclaration" THEN node.source ELSE node.arguments[1].value

dipReportsAt(k, messageId) ==
  {r \in 1..Len(dipReports) :
     dipReports[r].node = <<k>> /\ dipReports[r].messageId = messageId}

\* the paths a suggestion can name
SuggestedPaths ==
  {abstractPathFor(resolvePathAlias(o, v)) : o \in DipOptionSets, v \in DipImportPaths}
  \cup UNION {{o.customMappings[i][2] : i \in 1..Len(o.customMappings)} : o \in DipOptionSets}

\* the absolute paths that the existence check of a path looks at
lookedAt ==
  LET table == [x \in DipFilenames \X SuggestedPaths |->
                  {"/" \o join(resolveParts(workingDirectory, dirname(x[1]), x[2])) \o ext :
                     ext \in {"", ".js", ".ts", ".tsx"}}]
  IN  IF table = table THEN table ELSE table

\* the existence check confirms the path
confirmedToExist(filePath) ==
  ~dipFs.fails /\ lookedAt[<<dipFilename, filePath>>] \cap dipFs.files # {}

hasCustomMapping(importPath) ==
  \E i \in 1..Len(dipOptions.customMappings) : dipOptions.customMappings[i][1] = importPath

derivedPaths ==
  LET table == [x \in DipOptionSets \X DipImportPaths |->
                  abstractPathFor(resolvePathAlias(x[1], x[2]))]
  IN  IF table = table THEN table ELSE table

derivedPathOf(node) == derivedPaths[<<dipOptions, dipImportPathOf(node)>>]

dipPathFacts ==
  LET table == [x \in DipOptionSets \X DipImportPaths |->
                  [concrete |-> isConcreteImport(x[1], x[2]),
                   abstract |-> isAbstractImport(x[1], x[2]),
                   external |-> dipIsExternalModule(x[1], x[2])]]
  IN  IF table = table THEN table ELSE table

dipAllowedFiles == {f \in DipFilenames : isAllowedFile(f)}

\* import declarations that are not type-only, and calls of require
isCheckedImport(node) ==
  /\ isDipImportNode(node)
  /\ node.type = "ImportDeclaration" => ~isTypeOnlyImport(node)

dipAnyReportAt(k) == \E r \in 1..Len(dipReports) : dipReports[r].node[1] = k

layerCheckIds ==
  {"dependencyRuleViolation", "skipLayerViolation", "entityDependsOnUseCase", "missingInterface"}

\* C14: with the default layers, no layer diagnostic is emitted for an
\* import whose path is an external module
C14_ExternalExempt ==
  caLayers = defaultLayers =>
    \A k \in 1..Len(caImports) :
      (isImportNode(caImports[k]) /\ isExternalModule(importPathOf(caImports[k])))
        => ~\E r \in 1..Len(caReports) :
              caReports[r].node = k /\ caReports[r].messageId \in layerCheckIds


\* no class of the file names itself as its superclass
noSelfExtension ==
  \A c \in DOMAIN inheritanceChain : inheritanceChain[c] # c

\* C15 (as claimed): the record the symbol registry holds for a name is the
\* one built from the most recent declaration of that name alone. When that
\* declaration extends nothing, nothing is inherited, so the record lists every
\* non-excluded method the declaration declares and the end-of-file pass
\* judges all of them.
C15_LastDeclarationWins ==
  noSelfExtension =>
    \A i \in 1..Len(classAnalysis) :
      LET entry == classAnalysis[i]
      IN  (entry.name \in DOMAIN ispDeclared /\ entry.superClass = Null)
            => entry.totalMethods =
                 ispDeclared[entry.name].declared - ispDeclared[entry.name].excluded


\* an override that differs from the method it overrides only in that the
\* base method has throw statements and the override has none
isThrowRemoval(registry, methodNode, classNode) ==
  LET baseMethodInfo == methodInfoOf(registry, classNode.superClass, methodNode.keyName)
  IN  /\ methodNode.kind = "method"
      /\ baseMethodInfo # <<>>
      /\ LET base == methodProfileOf(baseMethodInfo[1])
             current == methodProfileOf(methodNode)
         IN  /\ ~base.throws /\ ~current.throws
             /\ base.hasThrow /\ ~current.hasThrow
             /\ current.thrown = <<>>
             /\ methodNode.params = baseMethodInfo[1].params
             /\ current.validations = base.validations
             /\ current.nullChecks = base.nullChecks
             /\ current.strictChecks = base.strictChecks
             /\ current.returnsNull = base.returnsNull

\* a class all of whose overrides of registered base methods are throw removals
overridesOnlyRemoveThrows(registry, classNode) ==
  /\ \E i \in 1..Len(classNode.body) : isThrowRemoval(registry, classNode.body[i], classNode)
  /\ \A i \in 1..Len(classNode.body) :
       methodInfoOf(registry, classNode.superClass, classNode.body[i].keyName) # <<>>
         => isThrowRemoval(registry, classNode.body[i], classNode)

lspReportsAdded == SubSeq(lspReports', Len(lspReports) + 1, Len(lspReports'))

\* C16: the MethodDefinition callback of an override that only removes the
\* base method's throw statements adds no weaker-postcondition and no
\* new-exception diagnostic, and ClassDeclaration:exit of a class whose
\* overrides only remove throws adds no substitutability diagnostic.
C16_ThrowRemovalNotFlagged ==
  [][ (lspPc = "walk" /\ lspCurrent # <<>>) =>
        LET classNode == lspCurrent[1]
        IN  /\ ( /\ lspIndex <= Len(classNode.body)
                 /\ lspIndex' = lspIndex + 1
                 /\ isThrowRemoval(classRegistry, classNode.body[lspIndex], classNode) )
               => \A i \in 1..Len(lspReportsAdded) :
                     lspReportsAdded[i].kind \notin {"weakerPostconditions", "newExceptions"}
            /\ ( /\ lspCurrent' = <<>>
                 /\ overridesOnlyRemoveThrows(classRegistry, classNode) )
               => \A i \in 1..Len(lspReportsAdded) :
                     lspReportsAdded[i].kind # "substitutability" ]_vars

\* the override of a throwing base method by one without throws has been
\* judged: its callback ran with the enclosing class found
C16_Witness ==
  /\ hasParent
  /\ lspPc = "walk"
  /\ lspCurrent # <<>>
  /\ lspIndex = 2
  /\ isThrowRemoval(classRegistry, lspCurrent[1].body[1], lspCurrent[1])
  /\ isOverridingMethod(classRegistry, lspCurrent[1].body[1], lspCurrent[1])


\* the path matches no pattern of any layer
isUnclassified(filePath) == getLayer(caLayers, filePath) = <<>>

importTargetOf(node) == resolveImportPath(importPathOf(node), caFilename)

caReportedAt(k, messageIds) ==
  \E r \in 1..Len(caReports) :
    caReports[r].node = k /\ caReports[r].messageId \in messageIds

\* C17: for an import whose file or whose target matches no layer pattern,
\* none of the four layer diagnostics is emitted, and none of
\* directDatabaseInUseCase when it is the file that is unclassified.
C17_UnclassifiedSuppressesLayerChecks ==
  \A k \in 1..Len(caImports) :
    isImportNode(caImports[k]) =>
      /\ (isUnclassified(caFilename) \/ isUnclassified(importTargetOf(caImports[k])))
           => ~caReportedAt(k, layerCheckIds)
      /\ isUnclassified(caFilename)
           => ~caReportedAt(k, {"directDatabaseInUseCase"})

\* an unclassified file imports a database driver and a classified path, and
\* a classified file that is not exempt imports an unclassified target for
\* which another check does report
C17_Witness ==
  \E k, j \in 1..Len(caImports) :
    /\ isImportNode(caImports[k]) /\ isImportNode(caImports[j])
    /\ \/ /\ isUnclassified(caFilename)
          /\ importPathOf(caImports[k]) = "mongoose"
          /\ ~isUnclassified(importTargetOf(caImports[j]))
       \/ /\ ~isUnclassified(caFilename)
          /\ isUnclassified(importTargetOf(caImports[k]))
          /\ caReportedAt(k, {"frameworkInBusinessLogic"})
          /\ j = k
    /\ ~caReportedAt(k, layerCheckIds) /\ ~caReportedAt(j, layerCheckIds)


\* one file analysed alone, from class k on: the MethodDefinition callbacks of
\* a class from method i on
RECURSIVE methodReportsAlone(_, _, _, _)
methodReportsAlone(registry, classNode, i, last) ==
  IF i > last THEN <<>>
  ELSE methodDefinitionReports(registry, classNode.body[i], classNode)
       \o methodReportsAlone(registry, classNode, i + 1, last)

\* the registry after the classes of the file have been registered in order
RECURSIVE registryAlone(_, _)
registryAlone(file, k) ==
  IF k = 0 THEN <<>>
  ELSE MapSet(registryAlone(file, k - 1), registerClass(file[k]).entry)

\* the diagnostics of a file analysed alone by a fresh instance, when its last
\* class is still open with the methods before index delivered (open), or when
\* every class has been left
RECURSIVE reportsAlone(_, _, _, _)
reportsAlone(file, k, open, index) ==
  IF k > Len(file) THEN <<>>
  ELSE LET registry == registryAlone(file, k)
       IN  IF k = Len(file) /\ open
           THEN methodReportsAlone(registry, file[k], 1, index - 1)
           ELSE methodReportsAlone(registry, file[k], 1, Len(file[k].body))
                \o classExitReports(registry, file[k])
                \o reportsAlone(file, k + 1, open, index)

\* the running instance, as a record like the parked one
lspRunning ==
  [registry |-> classRegistry, reports |-> lspReports, pc |-> lspPc,
   current |-> lspCurrent, index |-> lspIndex, classes |-> lspClasses,
   file |-> lspFile]

isolatedRun(instance) ==
  instance.pc = "walk" =>
    /\ instance.registry = registryAlone(instance.file, Len(instance.file))
    /\ instance.reports =
         reportsAlone(instance.file, 1, instance.current # <<>>, instance.index)

methodNamesOf(classNode) ==
  {classNode.body[i].keyName : i \in {j \in 1..Len(classNode.body) :
                                        classNode.body[j].kind = "method"}}

\* sub extends base, under different names, and both declare a method of the
\* same name
isOverridePair(sub, base) ==
  /\ sub.id # Null /\ base.id # Null /\ sub.id # base.id
  /\ sub.superClass = base.id
  /\ base.superClass = Null
  /\ methodNamesOf(sub) \cap methodNamesOf(base) # {}

\* the diagnostics among reports that are about the methods of class className
\* which the base class declares too
overrideReportsOf(reports, sub, base) ==
  SelectSeq(reports, LAMBDA r :
    r.className = sub.id /\ r.methodName \in methodNamesOf(sub) \cap methodNamesOf(base))

\* C19 (as claimed): for a file of two classes, one extending the other and
\* both declaring m, the diagnostics emitted for the override are those the
\* file with the two declarations in the other order gets.
C19_OrderIndependent ==
  ( /\ lspPc = "walk" /\ lspCurrent = <<>> /\ Len(lspFile) = 2
    /\ \/ isOverridePair(lspFile[1], lspFile[2])
       \/ isOverridePair(lspFile[2], lspFile[1]) )
  => LET sub == IF isOverridePair(lspFile[1], lspFile[2]) THEN lspFile[1] ELSE lspFile[2]
         base == IF isOverridePair(lspFile[1], lspFile[2]) THEN lspFile[2] ELSE lspFile[1]
         swapped == <<lspFile[2], lspFile[1]>>
     IN  overrideReportsOf(lspReports, sub, base)
           = overrideReportsOf(reportsAlone(swapped, 1, FALSE, 1), sub, base)


\* the file so far is one call and one class declaration, in either order
oneCallOneClass ==
  /\ ispPc = "walk"
  /\ ispEvents = 2
  /\ ispPending = <<>>
  /\ ispCalls # {}
  /\ Len(classAnalysis) = 1
  /\ ~classAnalysis[1].isTypeScriptInterface
  /\ classAnalysis[1].name \in ClassNames

\* C20 (as claimed): in a file of one call and one class declaration, in
\* either order, a method of the class that the call names, on the class's
\* name, is marked used.
C20_UsageOrderIndependent ==
  oneCallOneClass =>
    \A call \in ispCalls :
      LET methods == classAnalysis[1].methods
          named == {i \in 1..Len(methods) : methods[i].name = call.property}
      IN  (call.object = classAnalysis[1].name /\ named # {})
            => \E i \in named : methods[i].isUsed


\* the number of type-discriminating comparisons in the body of a function
typeChecksIn(node) ==
  Cardinality({i \in 1..Len(node.body) : typeCheckPatternOf[node.body[i]] # Null})

\* the traversal has left the k-th function of the file
functionTraversed(k) == k < Len(ocpFunctions) \/ ocpFunctionDone

missingAbstractionReported(k) ==
  \E r \in 1..Len(ocpReports) :
    ocpReports[r].messageId = "missingAbstraction" /\ ocpReports[r].node = <<k>>

\* C21 (as claimed): in a file that is not excluded, a function declaration
\* without an extension word whose own body holds more than maxTypeChecks
\* type-discriminating comparisons has a missingAbstraction diagnostic once the
\* traversal has been through it.
C21_TypeChecksFlagged ==
  (~excludedFileOf[ocpFilename] /\ hasParent) =>
    \A k \in 1..Len(ocpFunctions) :
      ( /\ functionTraversed(k)
        /\ ~functionFactsOf[ocpFunctions[k]].extension
        /\ typeChecksIn(ocpFunctions[k]) > maxTypeChecks )
      => missingAbstractionReported(k)


\* the file so far is a class declaration followed by that of a class
\* extending it
baseThenSubclass ==
  /\ ispPc = "walk"
  /\ ispEvents = 2
  /\ Len(classAnalysis) = 2
  /\ \A i \in 1..2 : /\ classAnalysis[i].name \in ClassNames
                     /\ ~classAnalysis[i].isTypeScriptInterface
  /\ classAnalysis[2].superClass = classAnalysis[1].name

\* C22 (as claimed): with ignoreInheritedMethods on, after class B and then
\* class A extends B have been declared, A's method record holds no method of
\* a name that B's record owns.
C22_InheritedLeftOut ==
  (ignoreInheritedMethods /\ baseThenSubclass) =>
    \A i \in 1..Len(classAnalysis[2].methods) :
      \A j \in 1..Len(classAnalysis[1].methods) :
        classAnalysis[2].methods[i].name # classAnalysis[1].methods[j].name


\* the method named methodName a class node declares: <<member>> or <<>>
declaredMethod(classNode, methodName) ==
  LET found == SelectSeq(classNode.body,
                 LAMBDA member : member.kind = "method" /\ member.keyName = methodName)
  IN  IF found = <<>> THEN <<>> ELSE <<found[Len(found)]>>

\* the file is class C, class B extends C, class A extends B, traversed to
\* the end, where only C and A declare m and A.m has more validation guards or
\* fewer parameters than C.m
strongerThanAncestor ==
  /\ lspPc = "walk" /\ lspCurrent = <<>> /\ Len(lspFile) = 3
  /\ lspFile[1].id = "C" /\ lspFile[2].id = "B" /\ lspFile[3].id = "A"
  /\ lspFile[2].superClass = "C" /\ lspFile[3].superClass = "B"
  /\ declaredMethod(lspFile[2], "m") = <<>>
  /\ declaredMethod(lspFile[1], "m") # <<>>
  /\ declaredMethod(lspFile[3], "m") # <<>>
  /\ LET base == declaredMethod(lspFile[1], "m")[1]
         override == declaredMethod(lspFile[3], "m")[1]
     IN  \/ methodProfileOf(override).validations > methodProfileOf(base).validations
         \/ override.params < base.params

\* C23 (as claimed): for A extends B extends C where only C and A declare m
\* and A.m adds a validation guard or takes fewer parameters than C.m, a
\* stronger-precondition diagnostic is emitted for A.m.
C23_AncestorOverrideJudged ==
  (hasParent /\ strongerThanAncestor) =>
    \E r \in 1..Len(lspReports) :
      /\ lspReports[r].kind = "strongerPreconditions"
      /\ lspReports[r].className = "A"
      /\ lspReports[r].methodName = "m"


\* target level minus importer level, for an import whose ends are both
\* classified
levelDifference(node) ==
  getLayer(caLayers, importTargetOf(node))[1].level - getLayer(caLayers, caFilename)[1].level

bothClassified(node) ==
  ~isUnclassified(caFilename) /\ ~isUnclassified(importTargetOf(node))

\* name is a configured layer whose level lies strictly between the levels
\* of the importer and of the target
liesBetween(name, node) ==
  \E i \in 1..Len(caLayers) :
    /\ caLayers[i].name = name
    /\ caLayers[i].level > getLayer(caLayers, caFilename)[1].level
    /\ caLayers[i].level < getLayer(caLayers, importTargetOf(node))[1].level

\* C24 (as claimed): for an import the detector checks, with both ends
\* classified, a skipLayerViolation is emitted exactly when target level minus
\* importer level is greater than 1, and the intermediate layer it names is a
\* configured layer whose level lies strictly between the two.
C24_SkipNamesLayerBetween ==
  \A k \in 1..Len(caImports) :
    (isImportNode(caImports[k]) /\ ~importExempt(caImports[k])
       /\ bothClassified(caImports[k])) =>
      /\ caReportedAt(k, {"skipLayerViolation"}) <=> levelDifference(caImports[k]) > 1
      /\ \A r \in 1..Len(caReports) :
           (caReports[r].node = k /\ caReports[r].messageId = "skipLayerViolation") =>
             liesBetween(caReports[r].data.intermediateLayer, caImports[k])


\* the node kinds the claim counts once each, besides logical and/or
ClaimedBranchTypes ==
  {"IfStatement", "ConditionalExpression", "WhileStatement", "ForStatement",
   "ForInStatement", "ForOfStatement", "DoWhileStatement", "SwitchCase", "CatchClause",
   "FunctionExpression", "ArrowFunctionExpression", "FunctionDeclaration"}

\* 1 plus the conditionals, loops, switch cases, logical and/or expressions,
\* catch clauses and nested function literals below the function node
claimedComplexity(t) ==
  1 + Cardinality({n \in 2..Len(t) :
        \/ t[n].type \in ClaimedBranchTypes
        \/ t[n].type = "LogicalExpression" /\ t[n].operator \in {"&&", "||"}})

\* C25 (as claimed): the complexity calculateMethodComplexity returns for a
\* method is 1 plus the number of conditionals, loops, switch cases, logical
\* and/or expressions, catch clauses and nested function literals of its body
\* (a switch adds one per case, a try one per catch clause).
C25_ComplexityCountsCasesAndCatches ==
  (walkInput.walker = "countComplexity" /\ walkResult # <<>> /\ ~walkResult[1].overflow) =>
    calculateMethodComplexity(walkInput.tree, hasParentLinks) = claimedComplexity(walkInput.tree)


\* C26 (as claimed): for every configured maxUnusedMethods ceiling c >= 0,
\* once the file is analysed a record with more than c unused methods has
\* exactly one unused-methods report and a record with at most c has none;
\* with c = 0 a class with a single unused method is reported.
C26_UnusedCeilingAsConfigured ==
  ispPc = "done" =>
    \A i \in 1..Len(classAnalysis) :
      Len(reportsOf("unusedMethods", classAnalysis[i].name)) =
        (IF Len(unusedOf(classAnalysis[i])) > configuredMaxUnusedMethods THEN 1 ELSE 0)


\* the claimed matching of an object name with a record
nameMatches(entry, objectName) ==
  /\ objectName # Undefined
  /\ \/ entry.name = objectName
     \/ entry.isInterface /\ includes(lowerOf[objectName], lowerOf[entry.name])

\* the record after a call or access object.property is as claimed: one more
\* use of a method of that name when the name matches and the record has such
\* a method, and the record unchanged otherwise
creditedAsClaimed(before, after, objectName, propertyName) ==
  IF /\ nameMatches(before, objectName)
     /\ \E j \in 1..Len(before.methods) : before.methods[j].name = propertyName
  THEN \E j \in 1..Len(before.methods) :
         /\ before.methods[j].name = propertyName
         /\ after = [before EXCEPT !.methods[j].isUsed = TRUE,
                                   !.methods[j].usageCount = @ + 1]
  ELSE after = before

\* C27 (as claimed): a call object.method(...) and a member access
\* object.property each add one use to the method of that name of every record
\* whose name equals the object name or which is interface-like with its
\* lowercased name contained in the lowercased object name, and change no
\* other record.
C27_CallAndAccessCreditAlike ==
  [][ /\ (ispPending = <<>> /\ ispPending' # <<>>) =>
           \A i \in 1..Len(classAnalysis) :
             creditedAsClaimed(classAnalysis[i], classAnalysis'[i],
                               ispPending'[1].object, ispPending'[1].property)
      /\ (ispPending # <<>> /\ ispPending' = <<>>) =>
           \A i \in 1..Len(classAnalysis) :
             creditedAsClaimed(classAnalysis[i], classAnalysis'[i],
                               ispPending[1].object, ispPending[1].property) ]_vars


\* C28: in every reachable state of an ISP run, each method record has isUsed
\* true exactly when its usageCount is positive, and every method listed in an
\* unused-methods diagnostic has usageCount 0.
C28_UsedIffCounted ==
  /\ \A i \in 1..Len(classAnalysis) :
       \A j \in 1..Len(classAnalysis[i].methods) :
         classAnalysis[i].methods[j].isUsed <=> classAnalysis[i].methods[j].usageCount > 0
  /\ \A r \in 1..Len(ispReports) :
       ispReports[r].kind = "unusedMethods" =>
         \A k \in 1..Len(ispReports[r].methods) : ispReports[r].methods[k].uses = 0

\* the file is analysed: one record has a method used more than once, and an
\* unused-methods diagnostic lists the methods of a record
C28_Witness ==
  /\ ispPc = "done"
  /\ \E i \in 1..Len(classAnalysis) :
       \E j \in 1..Len(classAnalysis[i].methods) :
         classAnalysis[i].methods[j].isUsed /\ classAnalysis[i].methods[j].usageCount > 1
  /\ \E r \in 1..Len(ispReports) :
       ispReports[r].kind = "unusedMethods" /\ ispReports[r].methods # <<>>


\* the functions of the file the traversal has dealt with: each as the pair
\* of its place and its node
functionsAnalysed ==
  {<<<<k>>, srpFile[k]>> : k \in {i \in 1..Len(srpFile) : srpFile[i].type # "ClassBody"}}
  \cup
  UNION {{<<<<k, j>>, srpFile[k].body[j].value>> :
            j \in {i \in 1..Len(srpFile[k].body) :
                     \A p \in 1..Len(srpPending) : srpPending[p].at # <<k, i>>}} :
         k \in {i \in 1..Len(srpFile) : srpFile[i].type = "ClassBody"}}

srpLimitOf(metric) ==
  CASE metric = "lines" -> maxLines
    [] metric = "statements" -> maxStatements
    [] metric = "complexity" -> maxComplexity

srpReportsAt(at, metric) ==
  SelectSeq(srpReports, LAMBDA r : r.node = at /\ r.metric = metric)

\* C29 (as claimed): each function of the file is analysed exactly once: for
\* each of code lines, statements and complexity it has exactly one diagnostic
\* when it exceeds the threshold and none otherwise, also when it is the body
\* of a class method.
C29_OneDiagnosticPerMetric ==
  \A f \in functionsAnalysed :
    \A metric \in {"lines", "statements", "complexity"} :
      Len(srpReportsAt(f[1], metric)) =
        (IF srpMeasuresOf[f[2]][metric] > srpLimitOf(metric) THEN 1 ELSE 0)


\* both ends are classified and the importer's level is not below the target's
importsInward(node) ==
  bothClassified(node) /\ levelDifference(node) <= 0

\* C30 (as claimed): an import in the permitted direction yields none of
\* dependencyRuleViolation, skipLayerViolation, entityDependsOnUseCase and
\* missingInterface.
C30_InwardImportsSilent ==
  \A k \in 1..Len(caImports) :
    (isImportNode(caImports[k]) /\ importsInward(caImports[k]))
      => ~caReportedAt(k, layerCheckIds)

\* the configuration ranks the layer named entities below the one named useCases
entitiesBelowUseCases ==
  \A i, j \in 1..Len(caLayers) :
    (caLayers[i].name = "entities" /\ caLayers[j].name = "useCases")
      => caLayers[i].level < caLayers[j].level

\* C30 (amended): an import in the permitted direction yields no
\* dependencyRuleViolation and no skipLayerViolation, and no
\* entityDependsOnUseCase when entities rank below useCases; it yields
\* missingInterface exactly when the import is not exempt, the importer's
\* level exceeds the target's by more than 1 and the resolved target matches
\* no interface pattern and no cross-cutting pattern.
C30_InwardImportsOnlyMissingInterface ==
  \A k \in 1..Len(caImports) :
    (isImportNode(caImports[k]) /\ importsInward(caImports[k])) =>
      /\ ~caReportedAt(k, {"dependencyRuleViolation", "skipLayerViolation"})
      /\ entitiesBelowUseCases => ~caReportedAt(k, {"entityDependsOnUseCase"})
      /\ caReportedAt(k, {"missingInterface"}) <=>
           /\ ~importExempt(caImports[k])
           /\ levelDifference(caImports[k]) < -1
           /\ ~isInterface(importTargetOf(caImports[k]))
           /\ ~isCrossCutting(importTargetOf(caImports[k]))

\* a frameworks file imports an entities module directly, which is reported
\* as a missing interface, and an entities interface, which is not
C30_Witness ==
  \E k, j \in 1..Len(caImports) :
    /\ isImportNode(caImports[k]) /\ isImportNode(caImports[j])
    /\ importsInward(caImports[k]) /\ importsInward(caImports[j])
    /\ levelDifference(caImports[k]) < -1 /\ levelDifference(caImports[j]) < -1
    /\ caReportedAt(k, {"missingInterface"})
    /\ isInterface(importTargetOf(caImports[j]))
    /\ ~caReportedAt(j, {"missingInterface"})

=============================================================================
